---- MODULE Spec2Model ----
(***************************************************************************)
(* RetroSerialHub: port workers, the shared port registry (ACTIVE_PORTS /  *)
(* SURRENDERED_PORTS), the per-port session loop (bridge_loop) and the COM *)
(* bridge module (rsh_bridge).                                             *)
(*                                                                         *)
(* Threads are the port workers. Each statement of port_worker and of the   *)
(* bridge take-over that touches the registry or a serial device is a step *)
(* of its own, so the workers interleave as Python threads do; one read of *)
(* the terminal and the dispatch of the lines it delivers is one step.     *)
(* Serial errors are those of pyserial on Windows: I/O on a closed or dead *)
(* port raises SerialException, the open of a missing device names         *)
(* FileNotFoundError.                                                      *)
(***************************************************************************)
EXTENDS Integers, Sequences, FiniteSets, TLC

(* ---------------- configuration (config.py) ---------------- *)

\* SERIAL_CONFIGS: two of the configured lines, keyed by name.
Workers == {"APPLE2", "IBM"}

\* cfg['port'] of each line, as the number n of "COMn".
PortOf == [w \in Workers |-> IF w = "APPLE2" THEN 2 ELSE 6]

\* The serial devices that can exist on the host.
Ports == {PortOf[w] : w \in Workers}

\* len(BBSS): entries of the dial directory.
NumBBS == 64

\* range(6) in rsh_bridge.handle_input: open attempts of the bridge module.
BridgeOpenAttempts == 6

(* ---------------- bounds ---------------- *)

\* Lines delivered by one ser.read(ser.in_waiting).
MaxChunk == 2

\* Bytes delivered by one ser.read(ser.in_waiting), where the read is modelled
\* byte by byte.
MaxData == 3

\* Bytes of an unterminated line that input_buffer or bbs_line_buffer holds.
MaxBuf == 3

\* The same where the text of the unterminated line is of no interest.
MaxKept == 1

\* Bytes delivered by one read while the user types into a connection.
MaxTyped == 2

\* Bytes of one XMODEM block; the module uses 128.
BlockLen == 2

\* Bytes of the longest file whose every content is tried.
MaxFile == 4

\* NAKs the receiving side sends for data frames during one transfer.
MaxNak == 2

(* ---------------- terminal input ---------------- *)

\* Lines a terminal can send (without their terminator). The terminal on
\* APPLE2 drives the menus, the dial directory and the bridge prompts; the
\* terminal on IBM only ever sends the ATM command, in lower case and padded.
Lines ==
    [w \in Workers |->
        IF w = "APPLE2" THEN {"ATM", "ATH", "", "1", "6"} ELSE {" atm "}]

\* line_str.strip().upper()
StripUpper(l) == IF l = " atm " THEN "ATM" ELSE l

\* int(txt); 0 stands for ValueError.
IntOf(l) ==
    CASE l = "1" -> 1 [] l = "2" -> 2 [] l = "3" -> 3 [] l = "4" -> 4 [] l = "5" -> 5
      [] l = "6" -> 6 [] l = "7" -> 7 [] l = "8" -> 8
      [] OTHER -> 0

\* What one read of w's serial line can deliver.
Chunks(w) == UNION {[1..n -> Lines[w]] : n \in 1..MaxChunk}

(* ---------------- state ---------------- *)

VARIABLES
    ACTIVE_PORTS,       \* port -> "none" | "cur" | "old": the registered Serial object
    SURRENDERED_PORTS,  \* set of ports
    present,            \* port -> device exists on the host
    holder,             \* port -> the handle that has the device open
    pc,                 \* worker -> position in port_worker
    serOpen,            \* worker -> ser.is_open of the worker's latest Serial object
    firstOpen,          \* worker -> outcome of the first serial.Serial() call:
                        \*   "none" (not made yet), "absent", "other"
    reopened,           \* worker -> serial.Serial() was called again after a first
                        \*   call that found no device
    session             \* worker -> locals of bridge_loop and of the bridge module

vars == <<ACTIVE_PORTS, SURRENDERED_PORTS, present, holder, pc, serOpen, firstOpen,
          reopened, session>>

NoH == <<"none", "none">>
SerH(w) == <<"ser", w>>
BsH(w) == <<"bs", w>>

WorkerOf(p) == CHOOSE w \in Workers : PortOf[w] = p

\* The XMODEM transfer of a session when none has run: the locals of
\* rsh_files.xmodem_send and xmodem_receive, the two directions of the line
\* and the destination file. snd and rcv are the positions of the two
\* functions ("off" when the function does not run); file is the content of
\* the file sent, pos the offset f.read has reached, sblock_num and pkt the
\* sender's block_num and pkt, nframes the data frames written so far and naks
\* the NAKs answered with a resend; rblock_num and received are block_num and
\* received of the receiver, wrote says that open(dest_path, "wb") was
\* executed and dest is what was written. toSnd and toRcv are the bytes
\* waiting in the serial input of the sending and of the receiving side. tx
\* and rtx are the ser.write calls the sender and the receiver made in the
\* last step, rxc and rxpkt the byte and the packet the receiver read in it
\* (rxc is -1 when it read none). item is what the program at the other end
\* put on the line last and wire the part of it that has not arrived yet,
\* where the arrival is followed byte by byte. acks counts the ACK bytes
\* ymodem_send has read since it sent block 0.
NoTransfer ==
    [snd |-> "off", rcv |-> "off", file |-> <<>>, pos |-> 0, sblock_num |-> 1,
     pkt |-> <<>>, nframes |-> 0, naks |-> 0, rblock_num |-> 1, received |-> <<>>,
     wrote |-> FALSE, dest |-> <<>>, toSnd |-> <<>>, toRcv |-> <<>>,
     tx |-> <<>>, rtx |-> <<>>, rxc |-> -1, rxpkt |-> <<>>,
     item |-> <<>>, wire |-> <<>>, acks |-> 0]

\* sess['values'] of rsh_bridge.create_session (line 38): no key is set. A
\* missing number or flag is -1, a missing letter "".
NoValues ==
    [port_num |-> -1, baud |-> -1, data_bits |-> -1, stop_bits |-> -1,
     parity |-> "", xonxoff |-> -1, rtscts |-> -1]

\* Locals of bridge_loop at entry (lines 289-323). bridge_session is "None",
\* "prompt" (the staged prompts) or "runtime"; stage and port_num are those of
\* the bridge module; queue holds the lines still buffered; tk is the position
\* inside rsh_bridge.handle_input once the last prompt is answered ("idle"
\* outside it), tkObj the owner's Serial object it fetched, tkAttempt the
\* index of its open attempt; atm records that the last read outside
\* connected passthrough ended with an ATM line, ath that the last read was
\* made with a live bridge runtime and ended with an ATH line; carrier is what
\* connect_bbs reported in the last dispatched line ("none" when it was not
\* called), raised the mode whose module handler raised in the last dispatched
\* line ("none" when none did). input_buffer and bbs_line_buffer are the two line buffers; phase is
\* the part of the loop body that runs next ("serial": the read of the serial
\* line, "poll": the polls of the remote side, "continue": the jump back to
\* the head of the loop); data, echo, sent, lines and
\* lost describe the last read: the bytes read, the bytes written back to the
\* terminal, the bytes passed to tcp_sock.sendall as read, the raw lines cut
\* from input_buffer, and whether the send failed. xm is the XMODEM transfer
\* started from the file menu. values is sess['values'] of the bridge module
\* where the replies to its prompts are followed in full, and reply the last
\* of these replies or the last command of the file menu that was followed
\* as a key. transfer_mode is sess['transfer_mode'] of the files module.
NewSession ==
    [mode |-> "MENU", tcp_sock |-> FALSE, bridge_session |-> "None",
     stage |-> 0, port_num |-> 0, bridge_serial |-> FALSE,
     queue |-> <<>>, tk |-> "idle", tkObj |-> "none", tkAttempt |-> 0,
     atm |-> FALSE, ath |-> FALSE, carrier |-> "none", raised |-> "none",
     input_buffer |-> <<>>, bbs_line_buffer |-> <<>>, phase |-> "serial",
     data |-> <<>>, echo |-> <<>>, sent |-> <<>>, lines |-> <<>>, lost |-> FALSE,
     xm |-> NoTransfer, values |-> NoValues, reply |-> <<>>,
     transfer_mode |-> "XMODEM"]

\* The worker's Serial object can do I/O.
SerUsable(w) == serOpen[w] /\ holder[PortOf[w]] = SerH(w)

\* The bridged Serial object of w's session can do I/O.
BsUsable(w) ==
    /\ session[w].bridge_serial
    /\ session[w].port_num \in Ports
    /\ holder[session[w].port_num] = BsH(w)

Init ==
    /\ ACTIVE_PORTS = [p \in Ports |-> "none"]
    /\ SURRENDERED_PORTS = {}
    /\ present \in [Ports -> BOOLEAN]
    /\ holder = [p \in Ports |-> NoH]
    /\ pc = [w \in Workers |-> "open"]
    /\ serOpen = [w \in Workers |-> FALSE]
    /\ firstOpen = [w \in Workers |-> "none"]
    /\ reopened = [w \in Workers |-> FALSE]
    /\ session = [w \in Workers |-> NewSession]

(* ---------------- helpers ---------------- *)

\* The frame of bridge_loop is dropped (the except clause is left, or the
\* worker returns): its socket and its bridged Serial object are finalised.
DropFrame(w) ==
    /\ holder' = [p \in Ports |-> IF holder[p] = BsH(w) THEN NoH ELSE holder[p]]
    /\ session' = [session EXCEPT ![w] = NewSession]

\* Serial.close() on the bridged Serial object of w's session.
CloseBs(w, h) == [p \in Ports |-> IF h[p] = BsH(w) THEN NoH ELSE h[p]]

(* ---------------- port_worker (RETRO_SERIAL_HUB.py 236-286) ---------------- *)

\* serial.Serial(...) at lines 240-249 and the classification of its failure
\* at lines 263-267; onAbsent is where the worker goes when the error names
\* FileNotFoundError.
OpenPortThen(w, onAbsent) ==
    LET p == PortOf[w] IN
    /\ pc[w] = "open"
    /\ firstOpen' = [firstOpen EXCEPT ![w] =
           IF @ # "none" THEN @ ELSE IF present[p] THEN "other" ELSE "absent"]
    /\ reopened' = [reopened EXCEPT ![w] = @ \/ firstOpen[w] = "absent"]
    /\ IF ~present[p]
       THEN \* SerialException naming FileNotFoundError
            /\ pc' = [pc EXCEPT ![w] = onAbsent]
            /\ UNCHANGED <<holder, serOpen, ACTIVE_PORTS, session>>
       ELSE IF holder[p] # NoH
       THEN \* SerialException (access denied): handled at line 268
            /\ pc' = [pc EXCEPT ![w] = "exc_serial"]
            /\ UNCHANGED <<holder, serOpen, ACTIVE_PORTS, session>>
       ELSE \* a new Serial object is bound to ser; the previous one is garbage
            /\ pc' = [pc EXCEPT ![w] = "register"]
            /\ holder' = [holder EXCEPT ![p] = SerH(w)]
            /\ serOpen' = [serOpen EXCEPT ![w] = TRUE]
            /\ ACTIVE_PORTS' = [ACTIVE_PORTS EXCEPT ![p] = IF @ = "cur" THEN "old" ELSE @]
            /\ session' = [v \in Workers |->
                  IF v # w /\ session[v].port_num = p /\ session[v].tkObj = "cur"
                  THEN [session[v] EXCEPT !.tkObj = "old"]
                  ELSE session[v]]
    /\ UNCHANGED <<SURRENDERED_PORTS, present>>

\* A worker that treats a missing device like any other serial error.
OpenPortRetriesAbsent(w) == OpenPortThen(w, "sleep5")

\* The open attempt of port_worker: a missing device ends the worker (line 267).
OpenPort(w) == OpenPortThen(w, "stopped")

\* ACTIVE_PORTS[cfg['port'].upper()] = {...} at line 253, then bridge_loop starts.
Register(w) ==
    /\ pc[w] = "register"
    /\ ACTIVE_PORTS' = [ACTIVE_PORTS EXCEPT ![PortOf[w]] = "cur"]
    /\ session' = [session EXCEPT ![w] = NewSession]
    /\ pc' = [pc EXCEPT ![w] = "session"]
    /\ UNCHANGED <<SURRENDERED_PORTS, present, holder, serOpen, firstOpen, reopened>>

\* bridge_loop returned: ACTIVE_PORTS.pop at line 260, then the next open.
Unregister(w) ==
    /\ pc[w] = "unregister"
    /\ ACTIVE_PORTS' = [ACTIVE_PORTS EXCEPT ![PortOf[w]] = "none"]
    /\ pc' = [pc EXCEPT ![w] = "open"]
    /\ DropFrame(w)
    /\ UNCHANGED <<SURRENDERED_PORTS, present, serOpen, firstOpen, reopened>>

\* except serial.SerialException, not device-absent: the test at line 270.
SerialExcept(w) ==
    /\ pc[w] = "exc_serial"
    /\ pc' = [pc EXCEPT ![w] = IF PortOf[w] \in SURRENDERED_PORTS
                               THEN "wait_pop" ELSE "sleep5"]
    /\ UNCHANGED <<ACTIVE_PORTS, SURRENDERED_PORTS, present, holder, serOpen, firstOpen, reopened, session>>

\* ACTIVE_PORTS.pop at line 273.
WaitPop(w) ==
    /\ pc[w] = "wait_pop"
    /\ ACTIVE_PORTS' = [ACTIVE_PORTS EXCEPT ![PortOf[w]] = "none"]
    /\ pc' = [pc EXCEPT ![w] = "wait_poll"]
    /\ UNCHANGED <<SURRENDERED_PORTS, present, holder, serOpen, firstOpen, reopened,
                   session>>

\* A polling loop whose test is inverted: it ends while the port is surrendered.
WaitPollInverted(w) ==
    /\ pc[w] = "wait_poll"
    /\ PortOf[w] \in SURRENDERED_PORTS
    /\ pc' = [pc EXCEPT ![w] = "sleep1"]
    /\ UNCHANGED <<ACTIVE_PORTS, SURRENDERED_PORTS, present, holder, serOpen, firstOpen,
                   reopened, session>>

\* while cfg['port'].upper() in SURRENDERED_PORTS: sleep(1), lines 275-277.
WaitPoll(w) ==
    /\ pc[w] = "wait_poll"
    /\ PortOf[w] \notin SURRENDERED_PORTS
    /\ pc' = [pc EXCEPT ![w] = "sleep1"]
    /\ UNCHANGED <<ACTIVE_PORTS, SURRENDERED_PORTS, present, holder, serOpen, firstOpen, reopened, session>>

\* time.sleep(1); continue at lines 278-279.
Sleep1(w) ==
    /\ pc[w] = "sleep1"
    /\ pc' = [pc EXCEPT ![w] = "open"]
    /\ DropFrame(w)
    /\ UNCHANGED <<ACTIVE_PORTS, SURRENDERED_PORTS, present, serOpen, firstOpen, reopened>>

\* time.sleep(5); continue at lines 280-282 and 283-286.
Sleep5(w) ==
    /\ pc[w] = "sleep5"
    /\ pc' = [pc EXCEPT ![w] = "open"]
    /\ DropFrame(w)
    /\ UNCHANGED <<ACTIVE_PORTS, SURRENDERED_PORTS, present, serOpen, firstOpen, reopened>>

(* ---------------- host ---------------- *)

\* The device of port p is removed from the host: every handle to it is dead.
Unplug(p) ==
    /\ present[p]
    /\ present' = [present EXCEPT ![p] = FALSE]
    /\ holder' = [holder EXCEPT ![p] = NoH]
    /\ UNCHANGED <<ACTIVE_PORTS, SURRENDERED_PORTS, pc, serOpen, firstOpen, reopened, session>>

\* The device of port p appears on the host.
Plug(p) ==
    /\ ~present[p]
    /\ present' = [present EXCEPT ![p] = TRUE]
    /\ UNCHANGED <<ACTIVE_PORTS, SURRENDERED_PORTS, holder, pc, serOpen, firstOpen, reopened,
                   session>>

(* ---------------- bridge_loop (RETRO_SERIAL_HUB.py 288-1072) ---------------- *)

\* The state one pass over the buffered lines works on: the locals of the
\* session (s), the position of its worker (pc), ser.is_open (serOpen), and
\* the two shared objects a dispatched line can change.
World(w) ==
    [s |-> session[w], pc |-> pc[w], serOpen |-> serOpen[w],
     holder |-> holder, surrendered |-> SURRENDERED_PORTS]

\* ser can do I/O in world x.
Usable(w, x) == x.serOpen /\ x.holder[PortOf[w]] = SerH(w)

\* The bridged Serial object of the session can do I/O in world x.
BsUsableIn(w, x) ==
    /\ x.s.bridge_serial
    /\ x.s.port_num \in Ports
    /\ x.holder[x.s.port_num] = BsH(w)

\* The session loop of w is between two iterations.
AtLoopTop(w) ==
    /\ pc[w] = "session"
    /\ session[w].queue = <<>>
    /\ session[w].tk = "idle"

\* Fields of the session when no bridge session object is left.
NoBridge(s) ==
    [s EXCEPT !.bridge_session = "None", !.bridge_serial = FALSE,
              !.stage = 0, !.port_num = 0]

\* An error leaves bridge_loop: the frame stays referenced by the traceback
\* until the except clause of port_worker is left; of its locals only the
\* bridged Serial object still matters.
Frozen(s) ==
    [NewSession EXCEPT !.bridge_serial = s.bridge_serial,
                       !.port_num = IF s.bridge_serial THEN s.port_num ELSE 0]

\* The error that leaves bridge_loop is caught at line 263 (SerialException)
\* or at line 283 (any other).
Escape(x, to) == [x EXCEPT !.pc = to, !.s = Frozen(x.s)]

\* The mode chosen by a menu line (lines 481-620); "MENU" for an invalid command.
MenuMode(u) ==
    CASE u = "1" -> "BBS"
      [] u = "2" -> "FILES"
      [] u = "3" -> "TEXT"
      [] u = "4" -> "URL"
      [] u = "5" -> "NOTES"
      [] u = "6" -> "COMBRIDGE_PROMPT"
      [] u = "7" -> "WARGAMES"
      [] u = "8" -> "AI"
      [] OTHER -> "MENU"

\* Variant of the ATM line without the test of SURRENDERED_PORTS: the session
\* always goes back to the menu.
DispatchATMKeepsSession(w, x) ==
    LET s == x.s
        rest == Tail(s.queue)
        closed == [NoBridge(s) EXCEPT !.tcp_sock = FALSE] IN
    IF ~Usable(w, x)
    THEN IF s.tcp_sock
         THEN Escape(x, "exc_serial")
         ELSE Escape([x EXCEPT !.s = NoBridge(s), !.holder = CloseBs(w, x.holder)],
                     "exc_serial")
    ELSE [x EXCEPT !.s = [closed EXCEPT !.mode = "MENU", !.queue = rest],
                   !.holder = CloseBs(w, x.holder)]

\* The global ATM line (lines 445-479).
DispatchATM(w, x) ==
    LET s == x.s
        p == PortOf[w]
        rest == Tail(s.queue)
        closed == [NoBridge(s) EXCEPT !.tcp_sock = FALSE] IN
    IF ~Usable(w, x)
    THEN \* a write to ser raises and the error leaves bridge_loop
         IF s.tcp_sock
         THEN Escape(x, "exc_serial")
         ELSE Escape([x EXCEPT !.s = NoBridge(s), !.holder = CloseBs(w, x.holder)],
                     "exc_serial")
    ELSE IF p \in x.surrendered
    THEN \* ser.close(); return
         [x EXCEPT !.pc = "unregister", !.s = Frozen(closed), !.serOpen = FALSE,
                   !.holder = [CloseBs(w, x.holder) EXCEPT ![p] = NoH]]
    ELSE [x EXCEPT !.s = [closed EXCEPT !.mode = "MENU", !.queue = rest],
                   !.holder = CloseBs(w, x.holder)]

\* A menu selection (lines 481-621).
DispatchMenu(w, x) ==
    LET s == x.s
        rest == Tail(s.queue)
        m == MenuMode(StripUpper(Head(s.queue))) IN
    IF ~Usable(w, x)
    THEN Escape(x, "exc_serial")
    ELSE IF m = "COMBRIDGE_PROMPT"
    THEN [x EXCEPT !.s = [s EXCEPT !.mode = m, !.queue = rest,
                                   !.bridge_session = "prompt", !.bridge_serial = FALSE,
                                   !.stage = 0, !.port_num = 0,
                                   !.values = NoValues]]
    ELSE IF m = "FILES"
    THEN \* fm.create_session(...) at line 510: transfer_mode is the default
         [x EXCEPT !.s = [s EXCEPT !.mode = m, !.queue = rest,
                                   !.transfer_mode = "XMODEM"]]
    ELSE [x EXCEPT !.s = [s EXCEPT !.mode = m, !.queue = rest]]

\* A line in the dial directory (lines 623-683); connected is the outcome of
\* connect_bbs, sendOk that of tcp_sock.sendall, modeOnFail the mode the
\* session is in after a dial that failed.
DispatchBBSThen(w, x, connected, sendOk, modeOnFail) ==
    LET s == x.s
        l == Head(s.queue)
        u == StripUpper(l)
        next == [s EXCEPT !.queue = Tail(s.queue)] IN
    IF u # "Q" /\ l # "" /\ u # "ATH" /\ s.tcp_sock
    THEN \* tcp_sock.sendall(raw_line + b"\r\n"), outside any try
         IF sendOk THEN [x EXCEPT !.s = next] ELSE Escape(x, "sleep5")
    ELSE IF ~Usable(w, x)
    THEN Escape(x, "exc_serial")
    ELSE IF u = "Q"
    THEN [x EXCEPT !.s = [next EXCEPT !.mode = "MENU"]]
    ELSE IF l = ""
    THEN [x EXCEPT !.s = next]
    ELSE IF s.tcp_sock
    THEN \* ATH while connected
         [x EXCEPT !.s = [next EXCEPT !.tcp_sock = FALSE]]
    ELSE IF IntOf(u) >= 1 /\ IntOf(u) <= NumBBS
    THEN \* connect_bbs (lines 172-185): "CONNECT", or "NO CARRIER" and None
         IF connected
         THEN [x EXCEPT !.s = [next EXCEPT !.tcp_sock = TRUE, !.carrier = "CONNECT"]]
         ELSE [x EXCEPT !.s = [next EXCEPT !.carrier = "NO CARRIER",
                                           !.mode = modeOnFail]]
    ELSE [x EXCEPT !.s = next]

\* Variant of the dial directory in which a failed dial drops to the main menu.
DispatchBBSFailToMenu(w, x, connected, sendOk) ==
    DispatchBBSThen(w, x, connected, sendOk, "MENU")

\* The dial directory: a failed dial stays in it.
DispatchBBS(w, x, connected, sendOk) ==
    DispatchBBSThen(w, x, connected, sendOk, "BBS")

\* (consumed, action) of rsh_files.handle_input for the menu submode.
FilesAction(u) == IF u = "Q" THEN "MENU" ELSE "None"

\* A line in the file transfer menu (lines 685-712).
DispatchFiles(w, x) ==
    LET s == x.s
        u == StripUpper(Head(s.queue)) IN
    IF ~Usable(w, x)
    THEN Escape(x, "exc_serial")
    ELSE [x EXCEPT !.s = [s EXCEPT !.queue = Tail(s.queue),
                                   !.mode = IF FilesAction(u) = "MENU" THEN "MENU" ELSE @]]

(* ---------------- rsh_bridge: staged prompts and take-over ---------------- *)

\* The reply is accepted by the prompt of the given stage (rsh_bridge 55-172).
ValidAt(stage, l) ==
    \/ l = ""
    \/ stage = 0 /\ IntOf(l) > 0
    \/ stage = 1 /\ IntOf(l) # 0
    \/ stage = 2 /\ IntOf(l) \in {7, 8}
    \/ stage = 3 /\ IntOf(l) \in {1, 2}
    \/ stage = 4 /\ l \in {"O", "E", "N"}
    \/ stage \in {5, 6} /\ l \in {"Y", "N"}

\* v['port_num'] after stage 0.
PortNum(l) == IF l = "" THEN 1 ELSE IntOf(l)

\* owner = active.get(port_name.upper()); owner and owner.get('serial')
Owned(n) == n \in Ports /\ ACTIVE_PORTS[n] # "none"

\* Stages 0 to 5 of handle_input: one field per reply (rsh_bridge 55-157).
DispatchBridgePrompt(w, x) ==
    LET s == x.s
        l == StripUpper(Head(s.queue))
        rest == Tail(s.queue) IN
    IF ~Usable(w, x)
    THEN Escape(x, "exc_serial")
    ELSE IF ValidAt(s.stage, l)
    THEN [x EXCEPT !.s = [s EXCEPT !.queue = rest, !.stage = @ + 1,
                                   !.port_num = IF s.stage = 0 THEN PortNum(l) ELSE @]]
    ELSE [x EXCEPT !.s = [s EXCEPT !.queue = rest]]

\* Stage 6 of handle_input up to the look-up of the owner (rsh_bridge 160-200).
DispatchBridgeOpen(w, x) ==
    LET s == x.s
        l == StripUpper(Head(s.queue))
        rest == Tail(s.queue) IN
    IF ~ValidAt(6, l)
    THEN IF Usable(w, x)
         THEN [x EXCEPT !.s = [s EXCEPT !.queue = rest]]
         ELSE Escape(x, "exc_serial")
    ELSE IF Owned(s.port_num)
    THEN IF Usable(w, x)
         THEN \* "Taking over...": owner_ser = owner['serial']
              [x EXCEPT !.s = [s EXCEPT !.queue = rest, !.tk = "add",
                                        !.tkObj = ACTIVE_PORTS[s.port_num]]]
         ELSE Escape(x, "exc_serial")
    ELSE [x EXCEPT !.s = [s EXCEPT !.queue = rest, !.tk = "open", !.tkAttempt = 0]]

(* ---------------- rsh_bridge: runtime ---------------- *)

\* A line dispatched to handle_input_runtime (rsh_bridge 327-387) and the
\* handling of its action (RETRO_SERIAL_HUB.py 814-860).
DispatchBridgeRuntime(w, x) ==
    LET s == x.s
        n == s.port_num
        hangup == s.bridge_serial /\ StripUpper(Head(s.queue)) = "ATH"
        toMenu == ~s.bridge_serial \/ hangup \/ ~BsUsableIn(w, x)
        y == [x EXCEPT !.surrendered = IF hangup THEN @ \ {n} ELSE @,
                       !.holder = IF toMenu THEN CloseBs(w, @) ELSE @,
                       !.s = IF toMenu
                             THEN [NoBridge(s) EXCEPT !.mode = "MENU",
                                                      !.queue = Tail(s.queue)]
                             ELSE [s EXCEPT !.queue = Tail(s.queue)]] IN
    IF toMenu /\ ~Usable(w, x) THEN Escape(y, "exc_serial") ELSE y

(* ---------------- line dispatch ---------------- *)

\* The last line of the chunk is ATM.
EndsWithATM(chunk) == StripUpper(chunk[Len(chunk)]) = "ATM"

\* The last line of the chunk is ATH.
EndsWithATH(chunk) == StripUpper(chunk[Len(chunk)]) = "ATH"

\* The outcomes of connect_bbs and of tcp_sock.sendall that the dispatch of
\* the chunk can depend on: both are used in the dial directory only.
Outcomes(w, chunk) ==
    IF session[w].mode = "BBS" \/ \E i \in 1..Len(chunk) : chunk[i] = "1"
    THEN BOOLEAN \X BOOLEAN
    ELSE {<<TRUE, TRUE>>}

\* The dispatch of the first buffered line (lines 442-1019).
DispatchLine(w, x0, connected, sendOk) ==
    LET x == [x0 EXCEPT !.s.carrier = "none"]
        m == x.s.mode IN
    IF StripUpper(Head(x.s.queue)) = "ATM" THEN DispatchATM(w, x)
    ELSE IF m = "MENU" THEN DispatchMenu(w, x)
    ELSE IF m = "BBS" THEN DispatchBBS(w, x, connected, sendOk)
    ELSE IF m = "FILES" THEN DispatchFiles(w, x)
    ELSE IF m = "COMBRIDGE_PROMPT" /\ x.s.stage < 6 THEN DispatchBridgePrompt(w, x)
    ELSE IF m = "COMBRIDGE_PROMPT" THEN DispatchBridgeOpen(w, x)
    ELSE IF m = "COMBRIDGE" THEN DispatchBridgeRuntime(w, x)
    ELSE [x EXCEPT !.s.queue = Tail(@)]

\* while b"\r" in input_buffer or b"\n" in input_buffer (lines 433-1019): the
\* buffered lines are dispatched in order until the buffer is empty, the
\* session ends, or the bridge module starts opening a port.
RECURSIVE ParseLines(_, _, _, _)
ParseLines(w, x, connected, sendOk) ==
    IF x.pc # "session" \/ x.s.queue = <<>> \/ x.s.tk # "idle"
    THEN x
    ELSE ParseLines(w, DispatchLine(w, x, connected, sendOk), connected, sendOk)

\* The world x becomes the state.
Commit(w, x) ==
    /\ session' = [session EXCEPT ![w] = x.s]
    /\ pc' = [pc EXCEPT ![w] = x.pc]
    /\ serOpen' = [serOpen EXCEPT ![w] = x.serOpen]
    /\ holder' = x.holder
    /\ SURRENDERED_PORTS' = x.surrendered

\* ser.in_waiting / ser.read raise on a closed or dead port (line 329).
ReadFail(w) ==
    /\ AtLoopTop(w)
    /\ ~SerUsable(w)
    /\ Commit(w, Escape(World(w), "exc_serial"))
    /\ UNCHANGED <<ACTIVE_PORTS, present, firstOpen, reopened>>

\* One read of the serial line in command mode and the dispatch of its lines
\* (lines 329-334, 429-1019).
ReadChunk(w, chunk, connected, sendOk) ==
    /\ AtLoopTop(w)
    /\ SerUsable(w)
    /\ ~(session[w].mode = "COMBRIDGE" /\ session[w].bridge_session # "None")
    /\ ~(session[w].mode = "BBS" /\ session[w].tcp_sock)
    /\ Commit(w, ParseLines(w, [World(w) EXCEPT !.s.queue = chunk,
                                                !.s.atm = EndsWithATM(chunk),
                                                !.s.ath = FALSE],
                             connected, sendOk))
    /\ UNCHANGED <<ACTIVE_PORTS, present, firstOpen, reopened>>

\* The lines still buffered when the bridge module returns are dispatched.
ResumeChunk(w, connected, sendOk) ==
    /\ pc[w] = "session"
    /\ session[w].queue # <<>>
    /\ session[w].tk = "idle"
    /\ Commit(w, ParseLines(w, World(w), connected, sendOk))
    /\ UNCHANGED <<ACTIVE_PORTS, present, firstOpen, reopened>>

\* One read of the serial line while a bridge runtime is live: the bytes go to
\* handle_raw_input and no line is parsed (lines 336-367, rsh_bridge 284-303).
ReadRawBridge(w, chunk) ==
    /\ AtLoopTop(w)
    /\ SerUsable(w)
    /\ session[w].mode = "COMBRIDGE" /\ session[w].bridge_session # "None"
    /\ IF BsUsable(w)
       THEN /\ session' = [session EXCEPT ![w].atm = EndsWithATM(chunk),
                                          ![w].ath = EndsWithATH(chunk)]
            /\ UNCHANGED holder
       ELSE \* handled = False: "COM bridge write failed", back to the menu
            /\ session' = [session EXCEPT ![w] =
                   [NoBridge(@) EXCEPT !.mode = "MENU", !.atm = EndsWithATM(chunk),
                                       !.ath = EndsWithATH(chunk)]]
            /\ holder' = CloseBs(w, holder)
    /\ UNCHANGED <<ACTIVE_PORTS, SURRENDERED_PORTS, present, pc, serOpen, firstOpen, reopened>>

\* One read of the serial line while connected to a remote BBS: the bytes are
\* sent to the socket and an ATH line hangs up (lines 371-427).
ReadRawBBS(w, chunk, sendOk) ==
    /\ AtLoopTop(w)
    /\ SerUsable(w)
    /\ session[w].mode = "BBS" /\ session[w].tcp_sock
    /\ IF ~sendOk
       THEN session' = [session EXCEPT ![w].tcp_sock = FALSE, ![w].atm = FALSE,
                                       ![w].ath = FALSE, ![w].carrier = "none"]
       ELSE IF \E i \in 1..Len(chunk) : chunk[i] # "" /\ StripUpper(chunk[i]) = "ATH"
       THEN session' = [session EXCEPT ![w].tcp_sock = FALSE, ![w].atm = FALSE,
                                       ![w].ath = FALSE, ![w].carrier = "none"]
       ELSE session' = [session EXCEPT ![w].atm = FALSE, ![w].ath = FALSE,
                                       ![w].carrier = "none"]
    /\ UNCHANGED <<ACTIVE_PORTS, SURRENDERED_PORTS, present, holder, pc, serOpen, firstOpen, reopened>>

(* ---------------- rsh_bridge: take-over steps ---------------- *)

\* surrendered.add(port_name.upper()) at rsh_bridge 201-202.
TakeoverAdd(w) ==
    /\ pc[w] = "session"
    /\ session[w].tk = "add"
    /\ SURRENDERED_PORTS' = SURRENDERED_PORTS \cup {session[w].port_num}
    /\ session' = [session EXCEPT ![w].tk = "close"]
    /\ UNCHANGED <<ACTIVE_PORTS, present, holder, pc, serOpen, firstOpen, reopened>>

\* owner_ser.close() at rsh_bridge 203-206.
TakeoverClose(w) ==
    LET n == session[w].port_num
        o == WorkerOf(n) IN
    /\ pc[w] = "session"
    /\ session[w].tk = "close"
    /\ IF session[w].tkObj = "cur"
       THEN /\ serOpen' = [serOpen EXCEPT ![o] = FALSE]
            /\ holder' = [holder EXCEPT ![n] = IF @ = SerH(o) THEN NoH ELSE @]
       ELSE UNCHANGED <<serOpen, holder>>
    /\ session' = [session EXCEPT ![w].tk = "pop", ![w].tkObj = "none"]
    /\ UNCHANGED <<ACTIVE_PORTS, SURRENDERED_PORTS, present, pc, firstOpen, reopened>>

\* active.pop(port_name.upper(), None) at rsh_bridge 207.
TakeoverPop(w) ==
    /\ pc[w] = "session"
    /\ session[w].tk = "pop"
    /\ ACTIVE_PORTS' = [ACTIVE_PORTS EXCEPT ![session[w].port_num] = "none"]
    /\ session' = [session EXCEPT ![w].tk = "open", ![w].tkAttempt = 0]
    /\ UNCHANGED <<SURRENDERED_PORTS, present, holder, pc, serOpen, firstOpen, reopened>>

\* What handle_input does once every open attempt has failed (rsh_bridge 244-249).
BridgeOpenFailed(s) ==
    [s EXCEPT !.tk = "idle", !.tkAttempt = 0, !.stage = 0, !.port_num = 0]

\* One serial.Serial(...) of the retry loop (rsh_bridge 223-258) and, on
\* success, the switch to the bridge runtime (RETRO_SERIAL_HUB.py 772-794).
BridgeTryOpen(w) ==
    LET s == session[w]
        n == s.port_num IN
    /\ pc[w] = "session"
    /\ s.tk = "open"
    /\ IF n \in Ports /\ present[n] /\ holder[n] = NoH
       THEN /\ holder' = [holder EXCEPT ![n] = BsH(w)]
            /\ session' = [session EXCEPT ![w] =
                   [s EXCEPT !.tk = "idle", !.tkAttempt = 0, !.stage = 0,
                             !.bridge_session = "runtime", !.bridge_serial = TRUE,
                             !.mode = "COMBRIDGE"]]
            /\ UNCHANGED pc
       ELSE IF s.tkAttempt + 1 < BridgeOpenAttempts
       THEN /\ session' = [session EXCEPT ![w].tkAttempt = @ + 1]
            /\ UNCHANGED <<holder, pc>>
       ELSE IF SerUsable(w)
       THEN /\ session' = [session EXCEPT ![w] = BridgeOpenFailed(s)]
            /\ UNCHANGED <<holder, pc>>
       ELSE \* the error report cannot be written: the error leaves bridge_loop
            /\ session' = [session EXCEPT ![w] = Frozen(s)]
            /\ pc' = [pc EXCEPT ![w] = "exc_serial"]
            /\ UNCHANGED holder
    /\ UNCHANGED <<ACTIVE_PORTS, SURRENDERED_PORTS, present, serOpen, firstOpen, reopened>>

\* poll_bridge finds the bridged port dead (rsh_bridge 306-324).
BridgePollFail(w) ==
    /\ AtLoopTop(w)
    /\ session[w].bridge_session = "runtime"
    /\ session[w].bridge_serial
    /\ ~BsUsable(w)
    /\ session' = [session EXCEPT ![w].bridge_serial = FALSE]
    /\ holder' = CloseBs(w, holder)
    /\ UNCHANGED <<ACTIVE_PORTS, SURRENDERED_PORTS, present, pc, serOpen, firstOpen, reopened>>

(* ---------------- remote side of a dial connection ---------------- *)

\* The remote closes the connection: recv returns b"" (lines 1022-1037).
RemoteClosed(w) ==
    /\ AtLoopTop(w)
    /\ SerUsable(w)
    /\ session[w].tcp_sock
    /\ session' = [session EXCEPT ![w].tcp_sock = FALSE]
    /\ UNCHANGED <<ACTIVE_PORTS, SURRENDERED_PORTS, present, holder, pc, serOpen, firstOpen, reopened>>

\* tcp_sock.recv raises (line 1025): the error leaves bridge_loop.
RemoteReset(w) ==
    /\ AtLoopTop(w)
    /\ session[w].tcp_sock
    /\ Commit(w, Escape(World(w), "sleep5"))
    /\ UNCHANGED <<ACTIVE_PORTS, present, firstOpen, reopened>>

(* ---------------- specification ---------------- *)

WorkerStep(w) ==
    \/ OpenPort(w) \/ Register(w) \/ Unregister(w) \/ SerialExcept(w)
    \/ WaitPop(w) \/ WaitPoll(w) \/ Sleep1(w) \/ Sleep5(w)

BridgeStep(w) ==
    \/ TakeoverAdd(w) \/ TakeoverClose(w) \/ TakeoverPop(w) \/ BridgeTryOpen(w)
    \/ BridgePollFail(w)

InputStep(w) ==
    \/ ReadFail(w)
    \/ \E chunk \in Chunks(w) : ReadRawBridge(w, chunk)
    \/ \E chunk \in Chunks(w), sendOk \in BOOLEAN : ReadRawBBS(w, chunk, sendOk)
    \/ \E chunk \in Chunks(w) : \E o \in Outcomes(w, chunk) :
           ReadChunk(w, chunk, o[1], o[2])
    \/ \E o \in Outcomes(w, session[w].queue) : ResumeChunk(w, o[1], o[2])

RemoteStep(w) == RemoteClosed(w) \/ RemoteReset(w)

HostStep == \E p \in Ports : Unplug(p) \/ Plug(p)

Next ==
    \/ \E w \in Workers : WorkerStep(w)
    \/ \E w \in Workers : BridgeStep(w)
    \/ \E w \in Workers : InputStep(w)
    \/ \E w \in Workers : RemoteStep(w)
    \/ HostStep

Spec == Init /\ [][Next]_vars

\* Threads keep running: a worker that can take a step of port_worker or of the
\* bridge module eventually takes it (time.sleep returns, calls return).
\* Terminals, remote hosts and the host's devices are under no obligation.
FairSpec ==
    /\ Spec
    /\ \A w \in Workers : WF_vars(WorkerStep(w))
    /\ \A w \in Workers : WF_vars(BridgeStep(w))

(* ---------------- the session loop byte by byte ---------------- *)

\* The bytes 13 and 10.
Terminators == {"CR", "LF"}

\* Sequences of 1 to n bytes of the set B.
BytesOf(B, n) == UNION {[1..k -> B] : k \in 1..n}

\* sep in buf
Has(buf, sep) == \E i \in 1..Len(buf) : buf[i] = sep

\* bytes.lstrip(b"\r\n")
RECURSIVE LStrip(_)
LStrip(buf) ==
    IF buf # <<>> /\ Head(buf) \in Terminators THEN LStrip(Tail(buf)) ELSE buf

\* bytes.rstrip(b"\r\n")
RECURSIVE RStrip(_)
RStrip(buf) ==
    IF buf # <<>> /\ buf[Len(buf)] \in Terminators
    THEN RStrip(SubSeq(buf, 1, Len(buf) - 1))
    ELSE buf

\* raw_line.decode(errors='ignore').strip().upper() for the lines the menus
\* know; "?" is any other text.
LineStr(raw) ==
    LET r == RStrip(LStrip(raw)) IN
    CASE r = <<>> -> ""
      [] r = <<"1">> -> "1"
      [] r = <<"2">> -> "2"
      [] r = <<"6">> -> "6"
      [] r = <<"Q">> -> "Q"
      [] r = <<"A", "T", "H">> -> "ATH"
      [] r = <<"A", "T", "M">> -> "ATM"
      [] OTHER -> "?"

\* One pass of the for loop at lines 434-438: the buffer is cut at the first
\* CR if it holds one, else at the first LF.
Partition(buf) ==
    LET sep == IF Has(buf, "CR") THEN "CR" ELSE "LF"
        i == CHOOSE i \in 1..Len(buf) :
                 buf[i] = sep /\ \A j \in 1..(i - 1) : buf[j] # sep IN
    [raw_line |-> SubSeq(buf, 1, i - 1),
     rest |-> LStrip(SubSeq(buf, i + 1, Len(buf)))]

\* The while loop at line 433: the raw lines cut from the buffer, in order,
\* and what is left of it.
RECURSIVE SplitLines(_)
SplitLines(buf) ==
    IF ~Has(buf, "CR") /\ ~Has(buf, "LF")
    THEN [lines |-> <<>>, rest |-> buf]
    ELSE LET p == Partition(buf)
             r == SplitLines(p.rest) IN
         [lines |-> <<p.raw_line>> \o r.lines, rest |-> r.rest]

\* The for loop at lines 394-425 over the bytes of a passthrough read, started
\* with buf in bbs_line_buffer: whether it hung up, and the buffer it leaves.
RECURSIVE AssembleRun(_, _)
AssembleRun(buf, data) ==
    IF data = <<>>
    THEN [hangup |-> FALSE, buf |-> buf]
    ELSE IF Head(data) \in Terminators
    THEN IF buf # <<>> /\ LineStr(buf) = "ATH"
         THEN [hangup |-> TRUE, buf |-> <<>>]
         ELSE AssembleRun(<<>>, Tail(data))
    ELSE AssembleRun(Append(buf, Head(data)), Tail(data))

\* Variant of the assembly that forgets, at each read, the bytes kept from
\* earlier reads.
AssembleFresh(buf, data) == AssembleRun(<<>>, data)

\* The assembly of the passthrough line: bbs_line_buffer lives across reads.
Assemble(buf, data) == AssembleRun(buf, data)

\* Variant of the echo that also echoes during passthrough.
EchoAlways(s, data) == data

\* ser.write(data) at lines 332-334: the bytes echoed for a read made in the
\* given mode.
Echo(s, data) == IF s.mode # "BBS" \/ (s.mode = "BBS" /\ ~s.tcp_sock) THEN data ELSE <<>>

\* The fields that describe the last read, when nothing was read.
NoRead(s) ==
    [s EXCEPT !.data = <<>>, !.echo = <<>>, !.sent = <<>>, !.lines = <<>>,
              !.lost = FALSE]

\* One iteration's read of the serial line, byte by byte (lines 329-443), in a
\* session without a live bridge: the echo, then either the passthrough to the
\* socket or the cutting of input_buffer into lines and their dispatch.
ReadData(w, data, connected, sendOk) ==
    LET s == session[w]
        pass == s.mode = "BBS" /\ s.tcp_sock
        r == [s EXCEPT !.data = data, !.echo = Echo(s, data), !.sent = <<>>,
                       !.lines = <<>>, !.lost = FALSE, !.atm = FALSE, !.ath = FALSE,
                       !.carrier = "none"]
        a == Assemble(s.bbs_line_buffer, data)
        sp == SplitLines(s.input_buffer \o data) IN
    /\ AtLoopTop(w)
    /\ SerUsable(w)
    /\ s.phase = "serial"
    /\ ~(s.mode = "COMBRIDGE" /\ s.bridge_session # "None")
    /\ IF pass /\ ~sendOk
       THEN \* "Connection to remote lost"; continue
            /\ session' = [session EXCEPT ![w] =
                   [r EXCEPT !.tcp_sock = FALSE, !.lost = TRUE, !.phase = "continue"]]
            /\ UNCHANGED <<SURRENDERED_PORTS, holder, pc, serOpen>>
       ELSE IF pass
       THEN \* tcp_sock.sendall(data), the ATH assembly; continue
            /\ session' = [session EXCEPT ![w] =
                   [r EXCEPT !.sent = data, !.bbs_line_buffer = a.buf,
                             !.tcp_sock = ~a.hangup, !.phase = "continue"]]
            /\ UNCHANGED <<SURRENDERED_PORTS, holder, pc, serOpen>>
       ELSE \* input_buffer += data; the lines are dispatched; the polls follow
            Commit(w, ParseLines(w,
                [World(w) EXCEPT !.s = [r EXCEPT
                     !.input_buffer = sp.rest,
                     !.lines = sp.lines,
                     !.queue = [i \in 1..Len(sp.lines) |-> LineStr(sp.lines[i])],
                     !.atm = sp.lines # <<>> /\ LineStr(sp.lines[Len(sp.lines)]) = "ATM",
                     !.phase = "poll"]],
                connected, sendOk))
    /\ UNCHANGED <<ACTIVE_PORTS, present, firstOpen, reopened>>

\* continue at lines 392 and 427: the next iteration starts at line 327
\* without the polls.
Continue(w) ==
    /\ AtLoopTop(w)
    /\ session[w].phase = "continue"
    /\ session' = [session EXCEPT ![w] = [NoRead(@) EXCEPT !.phase = "serial"]]
    /\ UNCHANGED <<ACTIVE_PORTS, SURRENDERED_PORTS, present, holder, pc, serOpen,
                   firstOpen, reopened>>

\* ser.in_waiting is 0 (line 329): the iteration goes on to the polls.
SerialIdle(w) ==
    /\ AtLoopTop(w)
    /\ SerUsable(w)
    /\ session[w].phase = "serial"
    /\ session' = [session EXCEPT ![w] = [NoRead(@) EXCEPT !.phase = "poll"]]
    /\ UNCHANGED <<ACTIVE_PORTS, SURRENDERED_PORTS, present, holder, pc, serOpen,
                   firstOpen, reopened>>

\* What the poll of the socket can find (lines 1022-1039): nothing to read,
\* bytes, the end of the stream, or an error raised by recv.
TcpEvents(s) == IF s.tcp_sock THEN {"none", "data", "closed", "reset"} ELSE {"none"}

\* The second half of an iteration in a session without a live bridge: the
\* poll of the socket (lines 1020-1039); the next iteration follows.
PollRemote(w, ev) ==
    LET s == session[w]
        n == [NoRead(s) EXCEPT !.phase = "serial"] IN
    /\ AtLoopTop(w)
    /\ s.phase = "poll"
    /\ ~(s.mode = "COMBRIDGE" /\ s.bridge_session # "None")
    /\ ev \in TcpEvents(s)
    /\ IF ev = "reset"
       THEN Commit(w, Escape(World(w), "sleep5"))
       ELSE IF ev \in {"data", "closed"} /\ ~SerUsable(w)
       THEN Commit(w, Escape(World(w), "exc_serial"))
       ELSE Commit(w, [World(w) EXCEPT !.s =
                [n EXCEPT !.tcp_sock = IF ev = "closed" THEN FALSE ELSE @]])
    /\ UNCHANGED <<ACTIVE_PORTS, present, firstOpen, reopened>>

\* The session whose loop is followed byte by byte.
ByteWorkers == {"APPLE2"}

\* The outcomes of connect_bbs and of tcp_sock.sendall a read can depend on:
\* a passthrough read makes no dial.
ByteOutcomes(s) ==
    IF s.mode = "BBS" /\ s.tcp_sock THEN {TRUE} \X BOOLEAN ELSE BOOLEAN \X BOOLEAN

\* The first half of an iteration: a read of up to n bytes, drawn from cmdKeys
\* in command mode and from passKeys in passthrough, or no read at all. No
\* more than capCmd bytes of an unterminated line are ever left in
\* input_buffer, no more than capPass in bbs_line_buffer.
ByteInput(w, cmdKeys, passKeys, n, capCmd, capPass) ==
    LET s == session[w]
        keys == IF s.mode = "BBS" /\ s.tcp_sock THEN passKeys ELSE cmdKeys IN
    \/ \E data \in BytesOf(keys, n), o \in ByteOutcomes(s) :
           /\ ReadData(w, data, o[1], o[2])
           /\ Len(session'[w].input_buffer) <= capCmd
           /\ Len(session'[w].bbs_line_buffer) <= capPass
    \/ SerialIdle(w)
    \/ Continue(w)

BytePoll(w) == \E ev \in {"none", "data", "closed", "reset"} : PollRemote(w, ev)

ByteWorker(w) == OpenPort(w) \/ Register(w) \/ SerialExcept(w) \/ Sleep5(w)

\* The hub starts with every configured device on the host.
ByteInit == Init /\ present = [p \in Ports |-> TRUE]

\* The keys of a terminal that sends lines of text, ended by CR or by LF.
TextKeys == {"x", "CR", "LF"}

\* A read of text at the main menu, or no read at all: no line of text opens
\* a connection, so every read is made in command mode.
TextInput(w) ==
    \/ \E data \in BytesOf(TextKeys, MaxData) :
           /\ ReadData(w, data, FALSE, FALSE)
           /\ Len(session'[w].input_buffer) <= MaxBuf
    \/ SerialIdle(w)

LineNext ==
    \/ \E w \in ByteWorkers : OpenPort(w) \/ Register(w)
    \/ \E w \in ByteWorkers : TextInput(w)
    \/ \E w \in ByteWorkers : PollRemote(w, "none")

\* One session loop with a terminal that sends text no menu knows.
LineSpec == ByteInit /\ [][LineNext]_vars

\* The keys that drive the main menu and the dial directory.
DialKeys == {"1", "Q", "CR"}

DialNext ==
    \/ \E w \in ByteWorkers : ByteWorker(w)
    \/ \E w \in ByteWorkers : ByteInput(w, DialKeys, DialKeys, MaxData, MaxKept, MaxKept)
    \/ \E w \in ByteWorkers : BytePoll(w)

\* One session loop with a terminal that enters, uses and leaves the dial
\* directory, also while a connection is open.
DialSpec == ByteInit /\ [][DialNext]_vars

\* The keys typed into an open connection.
HangupKeys == {"A", "T", "H", "CR", "LF"}

HangupNext ==
    \/ \E w \in ByteWorkers : ByteWorker(w)
    \/ \E w \in ByteWorkers : ByteInput(w, {"1", "CR"}, HangupKeys, MaxTyped, MaxKept, MaxBuf)
    \/ \E w \in ByteWorkers : BytePoll(w)

\* One session loop with a terminal that dials and then types into the
\* connection, a few keys per read.
HangupSpec == ByteInit /\ [][HangupNext]_vars

(* ---------------- the live bridge byte by byte ---------------- *)

\* bytes.replace(old, new): every occurrence of old, from the left and without
\* overlap, becomes new.
RECURSIVE Replace(_, _, _)
Replace(buf, old, new) ==
    IF Len(buf) < Len(old)
    THEN buf
    ELSE IF SubSeq(buf, 1, Len(old)) = old
    THEN new \o Replace(SubSeq(buf, Len(old) + 1, Len(buf)), old, new)
    ELSE <<Head(buf)>> \o Replace(Tail(buf), old, new)

\* out of rsh_bridge.handle_raw_input (line 294): the three replace calls,
\* each applied to the result of the one before.
RawOut(data) ==
    Replace(Replace(Replace(data, <<"CR", "LF">>, <<"CR", "LF">>),
                    <<"LF">>, <<"CR", "LF">>),
            <<"CR">>, <<"CR", "LF">>)

\* One iteration's read of the serial line with a live bridge runtime (lines
\* 329-367, rsh_bridge 284-303): the echo, then handle_raw_input; sent holds
\* the bytes passed to bs.write. No line is parsed and no poll follows.
ReadBridgeData(w, data) ==
    LET s == session[w]
        r == [s EXCEPT !.data = data, !.echo = Echo(s, data), !.sent = <<>>,
                       !.lines = <<>>, !.lost = FALSE, !.atm = FALSE, !.ath = FALSE,
                       !.carrier = "none", !.phase = "continue"] IN
    /\ AtLoopTop(w)
    /\ SerUsable(w)
    /\ s.phase = "serial"
    /\ s.mode = "COMBRIDGE" /\ s.bridge_session # "None"
    /\ IF BsUsable(w)
       THEN /\ session' = [session EXCEPT ![w] = [r EXCEPT !.sent = RawOut(data)]]
            /\ UNCHANGED holder
       ELSE \* handled = False: "COM bridge write failed", back to the menu
            /\ session' = [session EXCEPT ![w] =
                   [NoBridge(r) EXCEPT !.mode = "MENU", !.lost = TRUE]]
            /\ holder' = CloseBs(w, holder)
    /\ UNCHANGED <<ACTIVE_PORTS, SURRENDERED_PORTS, present, pc, serOpen, firstOpen,
                   reopened>>

\* The second half of an iteration with a live bridge runtime: poll_bridge
\* (rsh_bridge 306-324) finds nothing to read, bytes, or a dead port; the
\* session notices a dead port only at the next read.
PollBridge(w, ev) ==
    LET s == session[w] IN
    /\ AtLoopTop(w)
    /\ s.phase = "poll"
    /\ s.mode = "COMBRIDGE" /\ s.bridge_session # "None"
    /\ IF ev = "dead"
       THEN /\ session' = [session EXCEPT ![w] =
                   [NoRead(s) EXCEPT !.phase = "serial", !.bridge_serial = FALSE]]
            /\ holder' = CloseBs(w, holder)
            /\ UNCHANGED <<pc, serOpen>>
       ELSE IF ev = "data" /\ ~SerUsable(w)
       THEN /\ Commit(w, Escape(World(w), "exc_serial"))
            /\ UNCHANGED <<>>
       ELSE /\ session' = [session EXCEPT ![w] = [NoRead(s) EXCEPT !.phase = "serial"]]
            /\ UNCHANGED <<holder, pc, serOpen>>
    /\ UNCHANGED <<ACTIVE_PORTS, SURRENDERED_PORTS, present, firstOpen, reopened>>

\* The keys that lead from the main menu through the bridge prompts.
PromptKeys == {"6", "CR"}

\* The keys typed into a live bridge.
RawKeys == {"x", "CR", "LF"}

\* A read of up to MaxData bytes (with a live bridge) or of one line (at the
\* menu and the prompts), or no read at all.
BridgeInput(w) ==
    \/ \E data \in BytesOf(PromptKeys, MaxTyped) :
           /\ ReadData(w, data, FALSE, FALSE)
           /\ session'[w].input_buffer = <<>>
    \/ \E data \in BytesOf(RawKeys, MaxData) : ReadBridgeData(w, data)
    \/ SerialIdle(w)
    \/ Continue(w)

BridgeNext ==
    \/ \E w \in ByteWorkers : OpenPort(w) \/ Register(w)
    \/ \E w \in ByteWorkers : BridgeTryOpen(w)
    \/ \E w \in ByteWorkers : BridgeInput(w)
    \/ \E w \in ByteWorkers : PollRemote(w, "none")
    \/ \E w \in ByteWorkers, ev \in {"none", "data", "dead"} : PollBridge(w, ev)

\* One session loop with a terminal that opens a bridge to another port and
\* types into it.
BridgeSpec == ByteInit /\ [][BridgeNext]_vars

(* ---------------- rsh_bridge: the replies to the prompts ---------------- *)

\* The replies a terminal gives to the prompts, character by character: no
\* text, numbers with one and two digits and with a blank in front, zero,
\* letters in both cases, and text no prompt knows.
Replies ==
    {<<>>, <<" ">>, <<"6">>, <<"1", "6">>, <<"7">>, <<" ", "7">>, <<"1">>, <<"2">>,
     <<"0">>, <<"y">>, <<"N">>, <<"e">>, <<"x">>}

\* str.strip() for text with blanks at its ends.
RECURSIVE Strip(_)
Strip(txt) ==
    IF txt # <<>> /\ Head(txt) = " " THEN Strip(Tail(txt))
    ELSE IF txt # <<>> /\ txt[Len(txt)] = " " THEN Strip(SubSeq(txt, 1, Len(txt) - 1))
    ELSE txt

\* str.upper()
Upper(txt) ==
    [i \in 1..Len(txt) |->
        CASE txt[i] = "y" -> "Y" [] txt[i] = "e" -> "E" [] txt[i] = "x" -> "X"
          [] OTHER -> txt[i]]

Digit == [c \in {"0", "1", "2", "6", "7"} |->
             CASE c = "0" -> 0 [] c = "1" -> 1 [] c = "2" -> 2 [] c = "6" -> 6
               [] c = "7" -> 7]

\* int(txt) for text of digits; -1 stands for ValueError.
RECURSIVE ParseInt(_)
ParseInt(txt) ==
    IF txt = <<>> \/ \E i \in 1..Len(txt) : txt[i] \notin DOMAIN Digit THEN -1
    ELSE IF Len(txt) = 1 THEN Digit[txt[1]]
    ELSE 10 * ParseInt(SubSeq(txt, 1, Len(txt) - 1)) + Digit[txt[Len(txt)]]

\* The key of sess['values'] that each stage sets.
FieldOf ==
    <<"port_num", "baud", "data_bits", "stop_bits", "parity", "xonxoff", "rtscts">>

\* Variant of the stages in which the number of data bits is any number.
AcceptsReplyAnyBits(stage, line_str) ==
    LET txt == Strip(line_str)
        up == Upper(txt)
        n == ParseInt(txt) IN
    \/ txt = <<>>
    \/ stage = 0 /\ n > 0
    \/ stage \in {1, 2} /\ n >= 0
    \/ stage = 3 /\ n \in {1, 2}
    \/ stage = 4 /\ up[1] \in {"O", "E", "N"}
    \/ stage \in {5, 6} /\ up[1] \in {"Y", "N"}

\* The stage takes a value from the reply (rsh_bridge 55-172): the reply is
\* empty, or passes the test of the stage.
AcceptsReply(stage, line_str) ==
    LET txt == Strip(line_str)
        up == Upper(txt)
        n == ParseInt(txt) IN
    \/ txt = <<>>
    \/ stage = 0 /\ n > 0
    \/ stage = 1 /\ n >= 0
    \/ stage = 2 /\ n \in {7, 8}
    \/ stage = 3 /\ n \in {1, 2}
    \/ stage = 4 /\ up[1] \in {"O", "E", "N"}
    \/ stage \in {5, 6} /\ up[1] \in {"Y", "N"}

\* The value the stage takes from a reply it accepts: the default for an
\* empty reply; xon and rts are 1 for True and 0 for False.
StageValue(stage, line_str) ==
    LET txt == Strip(line_str)
        up == Upper(txt) IN
    CASE stage = 0 -> IF txt = <<>> THEN 1 ELSE ParseInt(txt)
      [] stage = 1 -> IF txt = <<>> THEN 115200 ELSE ParseInt(txt)
      [] stage = 2 -> IF txt = <<>> THEN 8 ELSE ParseInt(txt)
      [] stage = 3 -> IF txt = <<>> THEN 1 ELSE ParseInt(txt)
      [] stage = 4 -> IF up = <<>> THEN "N" ELSE up[1]
      [] stage \in {5, 6} -> IF up # <<>> /\ up[1] = "Y" THEN 1 ELSE 0

\* One call of handle_input with a reply (rsh_bridge 51-200): a refused reply
\* changes nothing; an accepted one is stored and the next prompt follows,
\* or, after the last prompt, the look-up of the owner of the port and the
\* open attempts.
HandleReply(s, line_str) ==
    LET val == StageValue(s.stage, line_str)
        v == [s.values EXCEPT ![FieldOf[s.stage + 1]] = val]
        n == v.port_num IN
    IF ~AcceptsReply(s.stage, line_str) THEN s
    ELSE IF s.stage < 6
    THEN [s EXCEPT !.values = v, !.stage = @ + 1,
                   !.port_num = IF s.stage = 0 THEN val ELSE @]
    ELSE IF Owned(n)
    THEN [s EXCEPT !.values = v, !.tk = "add", !.tkObj = ACTIVE_PORTS[n]]
    ELSE [s EXCEPT !.values = v, !.tk = "open", !.tkAttempt = 0]

\* A line is dispatched to the prompts (RETRO_SERIAL_HUB.py 764-768).
PromptReply(w, line_str) ==
    LET s == session[w] IN
    /\ AtLoopTop(w)
    /\ SerUsable(w)
    /\ s.mode = "COMBRIDGE_PROMPT" /\ s.bridge_session = "prompt"
    /\ s.phase = "serial"
    /\ session' = [session EXCEPT ![w] =
           HandleReply([NoRead(s) EXCEPT !.reply = line_str, !.phase = "poll"],
                       line_str)]
    /\ UNCHANGED <<ACTIVE_PORTS, SURRENDERED_PORTS, present, holder, pc, serOpen,
                   firstOpen, reopened>>

\* The user picks the COM bridge at the main menu.
EnterBridge(w) ==
    /\ session[w].mode = "MENU"
    /\ ReadData(w, <<"6", "CR">>, FALSE, FALSE)

PromptNext ==
    \/ \E w \in ByteWorkers : OpenPort(w) \/ Register(w)
    \/ \E w \in ByteWorkers : EnterBridge(w)
    \/ \E w \in ByteWorkers : PollRemote(w, "none")
    \/ \E w \in ByteWorkers, line_str \in Replies : PromptReply(w, line_str)
    \/ \E w \in ByteWorkers : TakeoverAdd(w)
    \/ \E w \in ByteWorkers : TakeoverClose(w)
    \/ \E w \in ByteWorkers : TakeoverPop(w)
    \/ \E w \in ByteWorkers : BridgeTryOpen(w)

\* One session whose terminal answers the prompts of the bridge module.
PromptSpec == ByteInit /\ [][PromptNext]_vars

\* The replies of a user who asks for a bridge to the port of the session's
\* own line and accepts every default.
OwnPortReplies == {<<>>, <<"2">>}

\* Nothing in these steps removes a port from SURRENDERED_PORTS (only the ATH
\* line of a live bridge does, rsh_bridge 349), so the exit of the polling
\* loop at RETRO_SERIAL_HUB.py 275 is never taken here.
OwnPortNext ==
    \/ \E w \in ByteWorkers : OpenPort(w) \/ Register(w)
    \/ \E w \in ByteWorkers : EnterBridge(w)
    \/ \E w \in ByteWorkers : PollRemote(w, "none")
    \/ \E w \in ByteWorkers, line_str \in OwnPortReplies : PromptReply(w, line_str)
    \/ \E w \in ByteWorkers : TakeoverAdd(w)
    \/ \E w \in ByteWorkers : TakeoverClose(w)
    \/ \E w \in ByteWorkers : TakeoverPop(w)
    \/ \E w \in ByteWorkers : BridgeTryOpen(w)
    \/ \E w \in ByteWorkers : ReadFail(w)
    \/ \E w \in ByteWorkers : SerialExcept(w)
    \/ \E w \in ByteWorkers : WaitPop(w)

\* One session whose user asks for a bridge to a port, the own one included.
OwnPortSpec == ByteInit /\ [][OwnPortNext]_vars

\* Threads keep running: the steps of port_worker and of the bridge module
\* are taken when they can be, and the session loop keeps polling
\* ser.in_waiting, which raises once the handle is closed. The user is under
\* no obligation.
OwnPortFairSpec ==
    /\ OwnPortSpec
    /\ \A w \in ByteWorkers : WF_vars(WorkerStep(w))
    /\ \A w \in ByteWorkers : WF_vars(BridgeStep(w))
    /\ \A w \in ByteWorkers : WF_vars(ReadFail(w))

(* ---------------- rsh_files: XMODEM ---------------- *)

\* The protocol bytes (rsh_files 27-32) and the padding byte (line 197).
SOH == 1
EOT == 4
ACK == 6
NAK == 21
CAN == 24
PAD == 26

\* A message for the user, written with _write: printable text that neither
\* side of the protocol interprets, modelled by the CR it ends with.
TextByte == 13

\* The byte values file contents are made of: the padding byte, a letter, and
\* the largest byte.
FileBytes == {PAD, 65, 255}

\* A file longer than 255 blocks.
LongFile == [i \in 1..(256 * BlockLen + 1) |-> 65]

\* The files sent: every content of up to MaxFile bytes, and the long file.
Files == UNION {[1..n -> FileBytes] : n \in 0..MaxFile} \cup {LongFile}

\* sum(chunk)
RECURSIVE Sum(_)
Sum(seq) == IF seq = <<>> THEN 0 ELSE Head(seq) + Sum(Tail(seq))

\* Variant of the padding that sends the last chunk as it is.
NoPad(chunk) == chunk

\* chunk += bytes([0x1A]) * (128 - len(chunk)) (lines 196-197)
Pad(chunk) == chunk \o [i \in 1..(BlockLen - Len(chunk)) |-> PAD]

\* pkt of lines 199-205 for a chunk of a full block's length.
Frame(block_num, chunk) ==
    <<SOH, block_num % 256, 255 - (block_num % 256)>> \o chunk \o <<Sum(chunk) % 256>>

\* Variant of the block counter that skips 0.
NextBlockSkipsZero(block_num) == IF block_num = 255 THEN 1 ELSE block_num + 1

\* (block_num + 1) & 0xFF (lines 213 and 257)
NextBlock(block_num) == (block_num + 1) % 256

\* ser.write(bytes) of the sender: the bytes reach the serial input of the
\* receiving side, if a receiver runs there.
Tx(x, bytes) ==
    [x EXCEPT !.tx = Append(@, bytes),
              !.toRcv = IF x.rcv # "off" THEN @ \o bytes ELSE @]

\* ser.write(bytes) of the receiver.
Rtx(x, bytes) ==
    [x EXCEPT !.rtx = Append(@, bytes),
              !.toSnd = IF x.snd # "off" THEN @ \o bytes ELSE @]

\* One pass of the while loop at line 179 up to its wait: f.read(128), then
\* EOT at the end of the file, else the frame of the chunk (lines 180-207).
SendNext(x) ==
    LET n == Len(x.file)
        to == IF x.pos + BlockLen < n THEN x.pos + BlockLen ELSE n
        chunk == SubSeq(x.file, x.pos + 1, to)
        pkt == Frame(x.sblock_num, Pad(chunk)) IN
    IF chunk = <<>>
    THEN Tx([x EXCEPT !.snd = "eot"], <<EOT>>)
    ELSE Tx([x EXCEPT !.snd = "ack", !.pos = to, !.pkt = pkt, !.nframes = @ + 1], pkt)

\* Variant of the start that does not wait for the receiver.
SendAtStartUnasked(x, b) == SendNext(x)

\* A byte read while waiting for the receiver (lines 167-170).
SendAtStart(x, b) == IF b \in {NAK, ACK} THEN SendNext(x) ELSE x

\* Variant of the wait for the reply in which a NAK moves on to the next chunk.
SendOnReplySkipping(x, b) ==
    CASE b \in {ACK, NAK} -> SendNext([x EXCEPT !.sblock_num = NextBlock(@)])
      [] b = CAN -> Tx([x EXCEPT !.snd = "cancelled"], <<TextByte>>)
      [] OTHER -> x

\* A byte read while waiting for the reply to a data frame (lines 210-219).
SendOnReply(x, b) ==
    CASE b = ACK -> SendNext([x EXCEPT !.sblock_num = NextBlock(@)])
      [] b = NAK -> Tx([x EXCEPT !.nframes = @ + 1, !.naks = @ + 1], x.pkt)
      [] b = CAN -> Tx([x EXCEPT !.snd = "cancelled"], <<TextByte>>)
      [] OTHER -> x

\* Variant of the wait after EOT that takes a NAK for the end of the transfer.
SendAfterEOTOnce(x, b) ==
    IF b \in {ACK, NAK} THEN Tx([x EXCEPT !.snd = "done"], <<TextByte>>) ELSE x

\* A byte read while waiting for the reply to EOT (lines 185-191).
SendAfterEOT(x, b) ==
    CASE b = ACK -> Tx([x EXCEPT !.snd = "done"], <<TextByte>>)
      [] b = NAK -> Tx(x, <<EOT>>)
      [] OTHER -> x

\* The sender waits for a byte.
Sending(x) == x.snd \in {"start", "ack", "eot"}

\* xmodem_send reads one byte of its serial input and acts on it.
XSendByte(w) ==
    LET x == session[w].xm
        b == Head(x.toSnd)
        x0 == [x EXCEPT !.toSnd = Tail(@), !.tx = <<>>, !.rtx = <<>>,
                        !.rxc = -1, !.rxpkt = <<>>] IN
    /\ pc[w] = "session"
    /\ SerUsable(w)
    /\ Sending(x)
    /\ x.toSnd # <<>>
    /\ session' = [session EXCEPT ![w].xm =
           CASE x.snd = "start" -> SendAtStart(x0, b)
             [] x.snd = "ack" -> SendOnReply(x0, b)
             [] x.snd = "eot" -> SendAfterEOT(x0, b)]
    /\ UNCHANGED <<ACTIVE_PORTS, SURRENDERED_PORTS, present, holder, pc, serOpen,
                   firstOpen, reopened>>

\* The deadline of the wait passes (lines 172-174, 193-194, 221-223): the
\* user is told and xmodem_send returns.
XSendTimeout(w) ==
    LET x == session[w].xm
        x0 == [x EXCEPT !.tx = <<>>, !.rtx = <<>>, !.rxc = -1, !.rxpkt = <<>>] IN
    /\ pc[w] = "session"
    /\ SerUsable(w)
    /\ Sending(x)
    /\ session' = [session EXCEPT ![w].xm =
           Tx([x0 EXCEPT !.snd = CASE x.snd = "start" -> "noreceiver"
                                   [] x.snd = "ack" -> "timeout"
                                   [] x.snd = "eot" -> "failed"],
              <<TextByte>>)]
    /\ UNCHANGED <<ACTIVE_PORTS, SURRENDERED_PORTS, present, holder, pc, serOpen,
                   firstOpen, reopened>>

\* The user enters the file menu from the main menu.
EnterFiles(w) ==
    /\ session[w].mode = "MENU"
    /\ ReadData(w, <<"2", "CR">>, FALSE, FALSE)

\* The user picks a file in XMODEM mode: handle_input returns XMODEM_SEND
\* (rsh_files 136-142) and the hub calls xmodem_send (lines 691-696), which
\* announces the transfer and waits (rsh_files 162-165). peer says whether
\* the other end of the line runs xmodem_receive.
StartSend(w, file, peer) ==
    /\ AtLoopTop(w)
    /\ SerUsable(w)
    /\ session[w].mode = "FILES" /\ session[w].phase = "serial"
    /\ session[w].xm = NoTransfer
    /\ session' = [session EXCEPT ![w].xm =
           Tx(Tx([NoTransfer EXCEPT !.snd = "start", !.file = file,
                                    !.rcv = IF peer THEN "init" ELSE "off"],
                 <<TextByte>>),
              <<TextByte>>)]
    /\ UNCHANGED <<ACTIVE_PORTS, SURRENDERED_PORTS, present, holder, pc, serOpen,
                   firstOpen, reopened>>

\* What the program at the other end of the line can send to xmodem_send: the
\* protocol bytes, and a byte that means nothing.
PeerBytes == {ACK, NAK, CAN, TextByte}

\* The other end of the line sends one byte to xmodem_send.
PeerReplies(w, b) ==
    LET x == session[w].xm IN
    /\ pc[w] = "session"
    /\ Sending(x) /\ x.rcv = "off"
    /\ x.toSnd = <<>>
    /\ (b = NAK /\ x.snd = "ack") => x.naks < MaxNak
    /\ session' = [session EXCEPT ![w].xm =
           [x EXCEPT !.toSnd = <<b>>, !.tx = <<>>]]
    /\ UNCHANGED <<ACTIVE_PORTS, SURRENDERED_PORTS, present, holder, pc, serOpen,
                   firstOpen, reopened>>

XSendNext ==
    \/ \E w \in ByteWorkers : OpenPort(w) \/ Register(w)
    \/ \E w \in ByteWorkers : EnterFiles(w)
    \/ \E w \in ByteWorkers : PollRemote(w, "none")
    \/ \E w \in ByteWorkers, file \in Files : StartSend(w, file, FALSE)
    \/ \E w \in ByteWorkers, b \in PeerBytes : PeerReplies(w, b)
    \/ \E w \in ByteWorkers : XSendByte(w)
    \/ \E w \in ByteWorkers : XSendTimeout(w)

\* One session that sends a file with xmodem_send to a program that answers
\* as it likes.
XSendSpec == ByteInit /\ [][XSendNext]_vars

(* ---------------- rsh_files: ymodem_send ---------------- *)

\* The start byte of a 1024-byte block (rsh_files 28) and ord('C').
STX == 2
LetterC == 67

\* The 1024 bytes of a data block and the 128 bytes of the header of block 0,
\* scaled down.
YBlockLen == 2
HeaderLen == 4

\* File names: one that fits into the header with any size, and one that
\* does not fit in.
Names == {<<65>>, <<65, 66, 67, 68>>}

\* str(fsize).encode("ascii")
RECURSIVE Digits(_)
Digits(n) == IF n < 10 THEN <<48 + n>> ELSE Digits(n \div 10) \o <<48 + (n % 10)>>

\* f"{fname}\0{fsize}".encode("ascii") (line 279)
HeaderText(name, file) == name \o <<0>> \o Digits(Len(file))

\* header + bytes(128 - len(header)) (line 280), where the text fits.
Header(name, file) ==
    LET h == HeaderText(name, file) IN h \o [i \in 1..(HeaderLen - Len(h)) |-> 0]

\* pkt0 of lines 281-282
Pkt0(header) == <<SOH, 0, 255>> \o header \o <<Sum(header) % 256>>

\* chunk += bytes([0x1A]) * (1024 - len(chunk)) (lines 308-309)
YPad(chunk) == chunk \o [i \in 1..(YBlockLen - Len(chunk)) |-> PAD]

\* pkt of lines 311-314
YFrame(block_num, chunk) ==
    <<STX, block_num % 256, 255 - (block_num % 256)>> \o chunk \o <<Sum(chunk) % 256>>

\* One pass of the while loop at line 304 up to its wait: f.read(1024), then
\* EOT at the end of the file (line 334), else the frame of the chunk.
YSendNext(x) ==
    LET n == Len(x.file)
        to == IF x.pos + YBlockLen < n THEN x.pos + YBlockLen ELSE n
        chunk == SubSeq(x.file, x.pos + 1, to)
        pkt == YFrame(x.sblock_num, YPad(chunk)) IN
    IF chunk = <<>>
    THEN Tx([x EXCEPT !.snd = "yeot"], <<EOT>>)
    ELSE Tx([x EXCEPT !.snd = "yack", !.pos = to, !.pkt = pkt, !.nframes = @ + 1], pkt)

\* A byte read while waiting for the receiver (lines 286-291): x.pkt is pkt0.
YAtStart(x, b) ==
    IF b \in {NAK, LetterC} THEN Tx([x EXCEPT !.snd = "yack0"], x.pkt) ELSE x

\* Variant of the wait after block 0 that goes on with any byte.
YAfterHeaderAnyByte(x, b) == YSendNext([x EXCEPT !.acks = @ + 1])

\* A byte read while waiting for the reply to block 0 (lines 296-300).
YAfterHeader(x, b) ==
    IF b = ACK THEN YSendNext([x EXCEPT !.acks = @ + 1]) ELSE x

\* A byte read while waiting for the reply to a data block (lines 318-328).
YOnReply(x, b) ==
    CASE b = ACK -> YSendNext([x EXCEPT !.sblock_num = NextBlock(@), !.acks = @ + 1])
      [] b = NAK -> Tx([x EXCEPT !.nframes = @ + 1, !.naks = @ + 1], x.pkt)
      [] b = CAN -> Tx([x EXCEPT !.snd = "ycancelled"], <<TextByte>>)
      [] OTHER -> x

\* A byte read while waiting for the reply to EOT (lines 335-342).
YAfterEOT(x, b) ==
    IF b = ACK THEN Tx([x EXCEPT !.snd = "ydone", !.acks = @ + 1], <<TextByte>>) ELSE x

\* ymodem_send waits for a byte.
YSending(x) == x.snd \in {"ystart", "yack0", "yack", "yeot"}

\* ymodem_send reads one byte of its serial input and acts on it.
YSendByte(w) ==
    LET x == session[w].xm
        b == Head(x.toSnd)
        x0 == [x EXCEPT !.toSnd = Tail(@), !.tx = <<>>, !.rtx = <<>>,
                        !.rxc = -1, !.rxpkt = <<>>] IN
    /\ pc[w] = "session"
    /\ SerUsable(w)
    /\ YSending(x)
    /\ x.toSnd # <<>>
    /\ session' = [session EXCEPT ![w].xm =
           CASE x.snd = "ystart" -> YAtStart(x0, b)
             [] x.snd = "yack0" -> YAfterHeader(x0, b)
             [] x.snd = "yack" -> YOnReply(x0, b)
             [] x.snd = "yeot" -> YAfterEOT(x0, b)]
    /\ UNCHANGED <<ACTIVE_PORTS, SURRENDERED_PORTS, present, holder, pc, serOpen,
                   firstOpen, reopened>>

\* The deadline of the wait for the receiver or for the reply to a data block
\* passes (lines 293-295, 330-332): the user is told and ymodem_send returns.
\* The waits after block 0 and after EOT have no deadline.
YSendTimeout(w) ==
    LET x == session[w].xm
        x0 == [x EXCEPT !.tx = <<>>, !.rtx = <<>>, !.rxc = -1, !.rxpkt = <<>>] IN
    /\ pc[w] = "session"
    /\ SerUsable(w)
    /\ x.snd \in {"ystart", "yack"}
    /\ session' = [session EXCEPT ![w].xm =
           Tx([x0 EXCEPT !.snd = IF x.snd = "ystart" THEN "ynoreceiver"
                                                     ELSE "ytimeout"],
              <<TextByte>>)]
    /\ UNCHANGED <<ACTIVE_PORTS, SURRENDERED_PORTS, present, holder, pc, serOpen,
                   firstOpen, reopened>>

\* The user picks a file in YMODEM mode: handle_input returns YMODEM_SEND
\* (rsh_files 143-144) and the hub calls ymodem_send (lines 697-698), which
\* announces the transfer, builds block 0 and waits (rsh_files 276-284). A
\* header text longer than the header makes bytes() raise, which the except
\* clause at line 343 reports.
StartYSend(w, name, file) ==
    /\ AtLoopTop(w)
    /\ SerUsable(w)
    /\ session[w].mode = "FILES" /\ session[w].phase = "serial"
    /\ session[w].xm = NoTransfer
    /\ session' = [session EXCEPT ![w].xm =
           IF Len(HeaderText(name, file)) > HeaderLen
           THEN Tx(Tx([NoTransfer EXCEPT !.snd = "yerror", !.file = file],
                      <<TextByte>>),
                   <<TextByte>>)
           ELSE Tx([NoTransfer EXCEPT !.snd = "ystart", !.file = file,
                                      !.pkt = Pkt0(Header(name, file))],
                   <<TextByte>>)]
    /\ UNCHANGED <<ACTIVE_PORTS, SURRENDERED_PORTS, present, holder, pc, serOpen,
                   firstOpen, reopened>>

\* What the program at the other end of the line can send to ymodem_send.
YPeerBytes == {ACK, NAK, CAN, LetterC, TextByte}

\* The other end of the line sends one byte to ymodem_send.
YPeerReplies(w, b) ==
    LET x == session[w].xm IN
    /\ pc[w] = "session"
    /\ YSending(x)
    /\ x.toSnd = <<>>
    /\ (b = NAK /\ x.snd = "yack") => x.naks < MaxNak
    /\ session' = [session EXCEPT ![w].xm =
           [x EXCEPT !.toSnd = <<b>>, !.tx = <<>>, !.rxc = -1]]
    /\ UNCHANGED <<ACTIVE_PORTS, SURRENDERED_PORTS, present, holder, pc, serOpen,
                   firstOpen, reopened>>

YSendNextStep ==
    \/ \E w \in ByteWorkers : OpenPort(w) \/ Register(w)
    \/ \E w \in ByteWorkers : EnterFiles(w)
    \/ \E w \in ByteWorkers : PollRemote(w, "none")
    \/ \E w \in ByteWorkers, name \in Names, file \in Files : StartYSend(w, name, file)
    \/ \E w \in ByteWorkers, b \in YPeerBytes : YPeerReplies(w, b)
    \/ \E w \in ByteWorkers : YSendByte(w)
    \/ \E w \in ByteWorkers : YSendTimeout(w)

\* One session that sends a file with ymodem_send to a program that answers
\* as it likes.
YSendSpec == ByteInit /\ [][YSendNextStep]_vars

(* ---------------- rsh_files: xmodem_receive ---------------- *)

\* Blocks the receiver accepts from a program that sends what it likes.
MaxRecv == 2

\* Variant of the frame test that takes any block number.
AcceptsAnyBlock(block_num, pkt) ==
    /\ pkt[2] = 255 - pkt[1]
    /\ Sum(SubSeq(pkt, 3, Len(pkt) - 1)) % 256 = pkt[Len(pkt)]

\* The tests of lines 249 and 252 on a packet of full length.
Accepts(block_num, pkt) ==
    /\ pkt[1] = block_num % 256
    /\ pkt[2] = 255 - pkt[1]
    /\ Sum(SubSeq(pkt, 3, Len(pkt) - 1)) % 256 = pkt[Len(pkt)]

\* The packet read after SOH (lines 245-257).
RecvFrame(x, pkt) ==
    IF Len(pkt) < BlockLen + 3
    THEN Rtx(x, <<NAK>>)
    ELSE IF ~Accepts(x.rblock_num, pkt)
    THEN Rtx(x, <<NAK>>)
    ELSE Rtx([x EXCEPT !.received = @ \o SubSeq(pkt, 3, Len(pkt) - 1),
                       !.rblock_num = NextBlock(@)],
             <<ACK>>)

\* The while loop at lines 261-262: the trailing 0x1A bytes are dropped.
RECURSIVE StripPad(_)
StripPad(received) ==
    IF received # <<>> /\ received[Len(received)] = PAD
    THEN StripPad(SubSeq(received, 1, Len(received) - 1))
    ELSE received

\* EOT was read (lines 260-266): ACK, then the file is written.
RecvEnd(x) ==
    Rtx(Rtx([x EXCEPT !.rcv = "done", !.wrote = TRUE, !.dest = StripPad(x.received)],
            <<ACK>>),
        <<TextByte>>)

\* Variant of the cancellation that saves what has arrived.
RecvCancelSaving(x) ==
    Rtx([x EXCEPT !.rcv = "cancelled", !.wrote = TRUE, !.dest = StripPad(x.received)],
        <<TextByte>>)

\* CAN was read (lines 269-270).
RecvCancel(x) == Rtx([x EXCEPT !.rcv = "cancelled"], <<TextByte>>)

\* xmodem_receive announces itself and asks for the first block (lines
\* 231-234).
RecvBegin(x) ==
    Rtx(Rtx([x EXCEPT !.rcv = "recv", !.rblock_num = 1, !.received = <<>>],
            <<TextByte>>),
        <<NAK>>)

\* xmodem_receive reads one byte of its serial input and, after SOH, the
\* packet that follows: up to 131 bytes of what has arrived (lines 237-270).
XRecvByte(w) ==
    LET x == session[w].xm
        c == Head(x.toRcv)
        after == Tail(x.toRcv)
        n == IF Len(after) < BlockLen + 3 THEN Len(after) ELSE BlockLen + 3
        pkt == IF c = SOH THEN SubSeq(after, 1, n) ELSE <<>>
        x0 == [x EXCEPT !.toRcv = SubSeq(after, Len(pkt) + 1, Len(after)),
                        !.tx = <<>>, !.rtx = <<>>, !.rxc = c, !.rxpkt = pkt] IN
    /\ pc[w] = "session"
    /\ SerUsable(w)
    /\ x.rcv = "recv"
    /\ x.toRcv # <<>>
    /\ session' = [session EXCEPT ![w].xm =
           CASE c = SOH -> RecvFrame(x0, pkt)
             [] c = EOT -> RecvEnd(x0)
             [] c = CAN -> RecvCancel(x0)
             [] OTHER -> x0]
    /\ UNCHANGED <<ACTIVE_PORTS, SURRENDERED_PORTS, present, holder, pc, serOpen,
                   firstOpen, reopened>>

\* ser.in_waiting raises during the transfer: the error leaves xmodem_receive,
\* the except clauses at rsh_files 99 and RETRO_SERIAL_HUB.py 708, whose
\* reports fail on the same port, and bridge_loop. The destination file is
\* not touched.
XRecvError(w) ==
    LET x == session[w].xm IN
    /\ pc[w] = "session"
    /\ ~SerUsable(w)
    /\ x.rcv = "recv"
    /\ session' = [session EXCEPT ![w] =
           [Frozen(@) EXCEPT !.xm = [x EXCEPT !.rcv = "error", !.tx = <<>>,
                                              !.rtx = <<>>, !.rxc = -1,
                                              !.rxpkt = <<>>]]]
    /\ pc' = [pc EXCEPT ![w] = "exc_serial"]
    /\ UNCHANGED <<ACTIVE_PORTS, SURRENDERED_PORTS, present, holder, serOpen,
                   firstOpen, reopened>>

\* The device of the line is removed during an upload.
UnplugDuringUpload(w) ==
    /\ session[w].xm.rcv = "recv"
    /\ Unplug(PortOf[w])

\* The user enters U and a file name in the file menu: handle_input calls
\* xmodem_receive (rsh_files 78-98).
StartReceive(w) ==
    /\ AtLoopTop(w)
    /\ SerUsable(w)
    /\ session[w].mode = "FILES" /\ session[w].phase = "serial"
    /\ session[w].xm = NoTransfer
    /\ session' = [session EXCEPT ![w].xm = RecvBegin(NoTransfer)]
    /\ UNCHANGED <<ACTIVE_PORTS, SURRENDERED_PORTS, present, holder, pc, serOpen,
                   firstOpen, reopened>>

\* The chunks a sending program puts into its frames.
RxChunks == {[i \in 1..BlockLen |-> b] : b \in FileBytes}

\* pkt with the byte at place i replaced by another one.
Damaged(pkt, i) == [pkt EXCEPT ![i] = (@ + 1) % 256]

\* What the program at the other end of the line can send to xmodem_receive
\* that expects the given block: the frame of that block, the frame of the
\* block before it once more, frames damaged in the block number, the
\* complement, the data or the checksum, a frame cut short, EOT, CAN, and a
\* byte that means nothing.
PeerItems(block_num, more) ==
    LET good == {Frame(block_num, ch) : ch \in RxChunks}
        again == {Frame((block_num + 255) % 256, ch) : ch \in RxChunks}
        bad == {Damaged(f, i) : f \in good, i \in 2..(BlockLen + 4)}
        short == {SubSeq(f, 1, 2) : f \in good} IN
    (IF more THEN good ELSE {}) \cup again \cup bad \cup short
        \cup {<<EOT>>, <<CAN>>, <<TextByte>>}

\* The other end of the line sends one item to xmodem_receive.
PeerSends(w, item) ==
    LET x == session[w].xm IN
    /\ pc[w] = "session"
    /\ x.rcv = "recv" /\ x.snd = "off"
    /\ x.toRcv = <<>>
    /\ item \in PeerItems(x.rblock_num, Len(x.received) < MaxRecv * BlockLen)
    /\ session' = [session EXCEPT ![w].xm =
           [x EXCEPT !.toRcv = item, !.rtx = <<>>, !.rxc = -1, !.rxpkt = <<>>]]
    /\ UNCHANGED <<ACTIVE_PORTS, SURRENDERED_PORTS, present, holder, pc, serOpen,
                   firstOpen, reopened>>

PeerSendsItem(w) ==
    \E item \in PeerItems(session[w].xm.rblock_num, TRUE) : PeerSends(w, item)

XRecvNext ==
    \/ \E w \in ByteWorkers : OpenPort(w) \/ Register(w)
    \/ \E w \in ByteWorkers : EnterFiles(w)
    \/ \E w \in ByteWorkers : PollRemote(w, "none")
    \/ \E w \in ByteWorkers : StartReceive(w)
    \/ \E w \in ByteWorkers : PeerSendsItem(w)
    \/ \E w \in ByteWorkers : XRecvByte(w)
    \/ \E w \in ByteWorkers : UnplugDuringUpload(w)
    \/ \E w \in ByteWorkers : XRecvError(w)

\* One session that receives a file with xmodem_receive from a program that
\* sends what it likes.
XRecvSpec == ByteInit /\ [][XRecvNext]_vars

\* The thread of the session keeps running: when xmodem_receive can take a
\* step (a byte is waiting, or ser.in_waiting raises) it takes it. The program
\* at the other end and the device are under no obligation. The loop of
\* xmodem_receive (rsh_files 237-240) reads no clock: there is no step that a
\* deadline would take.
XRecvFairSpec ==
    /\ XRecvSpec
    /\ \A w \in ByteWorkers : WF_vars(XRecvByte(w))
    /\ \A w \in ByteWorkers : WF_vars(XRecvError(w))

(* ---------------- rsh_files: frames that arrive in parts ---------------- *)

\* The sending program puts a frame of the expected block, EOT or CAN on the
\* line once everything it sent before has been read.
PeerTransmits(w, item) ==
    LET x == session[w].xm IN
    /\ pc[w] = "session"
    /\ x.rcv = "recv" /\ x.snd = "off"
    /\ x.toRcv = <<>> /\ x.wire = <<>>
    /\ \/ item \in {<<EOT>>, <<CAN>>}
       \/ /\ Len(x.received) < MaxRecv * BlockLen
          /\ item \in {Frame(x.rblock_num, ch) : ch \in RxChunks}
    /\ session' = [session EXCEPT ![w].xm =
           [x EXCEPT !.item = item, !.wire = item, !.rtx = <<>>, !.rxc = -1,
                     !.rxpkt = <<>>]]
    /\ UNCHANGED <<ACTIVE_PORTS, SURRENDERED_PORTS, present, holder, pc, serOpen,
                   firstOpen, reopened>>

PeerTransmitsItem(w) ==
    \E item \in {<<EOT>>, <<CAN>>}
                  \cup {Frame(session[w].xm.rblock_num, ch) : ch \in RxChunks} :
        PeerTransmits(w, item)

\* The next k bytes on the line arrive in the serial input of the receiver:
\* the port is opened with timeout=0 (RETRO_SERIAL_HUB.py 248), so ser.read
\* returns what has arrived and never waits.
Arrive(w, k) ==
    LET x == session[w].xm IN
    /\ pc[w] = "session"
    /\ x.rcv = "recv"
    /\ k \in 1..Len(x.wire)
    /\ session' = [session EXCEPT ![w].xm =
           [x EXCEPT !.toRcv = @ \o SubSeq(x.wire, 1, k),
                     !.wire = SubSeq(x.wire, k + 1, Len(x.wire)),
                     !.rtx = <<>>, !.rxc = -1, !.rxpkt = <<>>]]
    /\ UNCHANGED <<ACTIVE_PORTS, SURRENDERED_PORTS, present, holder, pc, serOpen,
                   firstOpen, reopened>>

XSplitNext ==
    \/ \E w \in ByteWorkers : OpenPort(w) \/ Register(w)
    \/ \E w \in ByteWorkers : EnterFiles(w)
    \/ \E w \in ByteWorkers : PollRemote(w, "none")
    \/ \E w \in ByteWorkers : StartReceive(w)
    \/ \E w \in ByteWorkers : PeerTransmitsItem(w)
    \/ \E w \in ByteWorkers, k \in 1..(BlockLen + 4) : Arrive(w, k)
    \/ \E w \in ByteWorkers : XRecvByte(w)

\* One session that receives a file with xmodem_receive from a program that
\* sends well-formed frames, over a line on which every byte arrives, sooner
\* or later.
XSplitSpec == ByteInit /\ [][XSplitNext]_vars

(* ---------------- rsh_files: xmodem_send to xmodem_receive ---------------- *)

\* The program at the other end of the line is xmodem_receive, and it starts.
PeerReceives(w) ==
    LET x == session[w].xm IN
    /\ pc[w] = "session"
    /\ x.rcv = "init"
    /\ session' = [session EXCEPT ![w].xm =
           RecvBegin([x EXCEPT !.tx = <<>>, !.rtx = <<>>])]
    /\ UNCHANGED <<ACTIVE_PORTS, SURRENDERED_PORTS, present, holder, pc, serOpen,
                   firstOpen, reopened>>

XferNext ==
    \/ \E w \in ByteWorkers : OpenPort(w) \/ Register(w)
    \/ \E w \in ByteWorkers : EnterFiles(w)
    \/ \E w \in ByteWorkers : PollRemote(w, "none")
    \/ \E w \in ByteWorkers, file \in Files : StartSend(w, file, TRUE)
    \/ \E w \in ByteWorkers : PeerReceives(w)
    \/ \E w \in ByteWorkers : XSendByte(w)
    \/ \E w \in ByteWorkers : XRecvByte(w)
    \/ \E w \in ByteWorkers : XSendTimeout(w)

\* One session that sends a file with xmodem_send over a line that loses and
\* alters nothing to xmodem_receive.
XferSpec == ByteInit /\ [][XferNext]_vars

(* ---------------- rsh_files: the transfer mode ---------------- *)

\* The commands of the file menu that select a transfer mode (rsh_files
\* 122-133).
ModeKeys == {"X", "Y", "A"}

ModeOf(key) ==
    CASE key = "X" -> "XMODEM" [] key = "Y" -> "YMODEM" [] key = "A" -> "ASCII"

\* The user enters X, Y or A in the file menu.
SelectMode(w, key) ==
    LET s == session[w] IN
    /\ AtLoopTop(w)
    /\ SerUsable(w)
    /\ s.mode = "FILES" /\ s.phase = "serial"
    /\ s.xm = NoTransfer
    /\ session' = [session EXCEPT ![w] =
           [NoRead(s) EXCEPT !.transfer_mode = ModeOf(key), !.reply = <<key>>,
                             !.phase = "poll"]]
    /\ UNCHANGED <<ACTIVE_PORTS, SURRENDERED_PORTS, present, holder, pc, serOpen,
                   firstOpen, reopened>>

\* ascii_send (rsh_files 347-359): it writes the announcement, the lines of
\* the file, which are not followed here, and the closing message, and waits
\* for nothing.
StartAsciiSend(w, file) ==
    /\ AtLoopTop(w)
    /\ SerUsable(w)
    /\ session[w].mode = "FILES" /\ session[w].phase = "serial"
    /\ session[w].xm = NoTransfer
    /\ session' = [session EXCEPT ![w].xm =
           Tx(Tx([NoTransfer EXCEPT !.snd = "adone", !.file = file], <<TextByte>>),
              <<TextByte>>)]
    /\ UNCHANGED <<ACTIVE_PORTS, SURRENDERED_PORTS, present, holder, pc, serOpen,
                   firstOpen, reopened>>

\* The user picks a file: handle_input returns the send action of the
\* current mode (rsh_files 136-146) and the hub calls the function of that
\* name (RETRO_SERIAL_HUB.py 691-698).
SendSelected(w, file) ==
    LET mode == session[w].transfer_mode IN
    \/ mode = "XMODEM" /\ StartSend(w, file, FALSE)
    \/ mode = "YMODEM" /\ StartYSend(w, <<65>>, file)
    \/ mode = "ASCII" /\ StartAsciiSend(w, file)

\* The positions at which a send function has returned.
Returned ==
    {"done", "cancelled", "noreceiver", "timeout", "failed",
     "ydone", "ycancelled", "ynoreceiver", "ytimeout", "yerror", "adone"}

\* The send function has returned: the hub lists the files again and creates
\* a new session of the files module (lines 699-702).
SendReturns(w) ==
    LET s == session[w] IN
    /\ pc[w] = "session"
    /\ SerUsable(w)
    /\ s.xm.snd \in Returned
    /\ session' = [session EXCEPT ![w] =
           [s EXCEPT !.xm = NoTransfer, !.transfer_mode = "XMODEM", !.reply = <<>>]]
    /\ UNCHANGED <<ACTIVE_PORTS, SURRENDERED_PORTS, present, holder, pc, serOpen,
                   firstOpen, reopened>>

\* The file the user picks.
MenuFiles == {<<65>>}

FilesNext ==
    \/ \E w \in ByteWorkers : OpenPort(w) \/ Register(w)
    \/ \E w \in ByteWorkers : EnterFiles(w)
    \/ \E w \in ByteWorkers : PollRemote(w, "none")
    \/ \E w \in ByteWorkers, key \in ModeKeys : SelectMode(w, key)
    \/ \E w \in ByteWorkers, file \in MenuFiles : SendSelected(w, file)
    \/ \E w \in ByteWorkers, b \in PeerBytes : PeerReplies(w, b)
    \/ \E w \in ByteWorkers, b \in YPeerBytes : YPeerReplies(w, b)
    \/ \E w \in ByteWorkers : XSendByte(w)
    \/ \E w \in ByteWorkers : YSendByte(w)
    \/ \E w \in ByteWorkers : XSendTimeout(w)
    \/ \E w \in ByteWorkers : YSendTimeout(w)
    \/ \E w \in ByteWorkers : SendReturns(w)
    \/ \E w \in ByteWorkers : StartReceive(w)

\* One session whose user selects transfer modes, sends files and starts
\* uploads in the file menu.
FilesSpec == ByteInit /\ [][FilesNext]_vars

(* ---------------- module handlers that fail ---------------- *)

\* The modes whose lines go to the handle_input of a module (lines 685-1019).
HandlerModes ==
    {"FILES", "TEXT", "URL", "NOTES", "WARGAMES", "AI", "COMBRIDGE_PROMPT", "COMBRIDGE"}

\* What the handler of a module can do with a line: ask for nothing, ask for
\* the main menu, or raise.
HandlerOutcomes == {"None", "MENU", "raise"}

\* The dispatch of the first buffered line when the handler of the module ends
\* with the given outcome (lines 685-1019); caught says whether the call is
\* inside the try of its mode. The except clauses report the error and set
\* mode = "MENU" (NOTES and WARGAMES by falling through to the "not available"
\* exit); the one of COMBRIDGE also drops the bridge session.
DispatchHandledThen(w, x0, outcome, caught) ==
    LET x == [x0 EXCEPT !.s.raised = "none", !.s.carrier = "none"]
        s == x.s
        m == s.mode
        rest == Tail(s.queue) IN
    IF StripUpper(Head(s.queue)) = "ATM" \/ m \notin HandlerModes
    THEN DispatchLine(w, x, TRUE, TRUE)
    ELSE IF outcome = "raise"
    THEN IF ~caught
         THEN Escape(x, "sleep5")
         ELSE IF ~Usable(w, x)
         THEN Escape(x, "exc_serial")
         ELSE IF m = "COMBRIDGE"
         THEN [x EXCEPT !.s = [NoBridge(s) EXCEPT !.mode = "MENU", !.queue = rest,
                                                  !.raised = m],
                        !.holder = CloseBs(w, @)]
         ELSE [x EXCEPT !.s = [s EXCEPT !.mode = "MENU", !.queue = rest, !.raised = m]]
    ELSE IF outcome = "MENU" /\ m \in {"TEXT", "URL", "NOTES", "WARGAMES", "AI"}
    THEN IF Usable(w, x)
         THEN [x EXCEPT !.s = [s EXCEPT !.mode = "MENU", !.queue = rest]]
         ELSE Escape(x, "exc_serial")
    ELSE DispatchLine(w, x, TRUE, TRUE)

\* Variant of the dispatch in which the handlers are called outside any try.
DispatchUnguarded(w, x, outcome) == DispatchHandledThen(w, x, outcome, FALSE)

\* The dispatch to the module handlers: each call is inside a try.
DispatchHandled(w, x, outcome) == DispatchHandledThen(w, x, outcome, TRUE)

\* The while loop at line 433 with handlers that end with the given outcome.
RECURSIVE ParseHandled(_, _, _)
ParseHandled(w, x, outcome) ==
    IF x.pc # "session" \/ x.s.queue = <<>> \/ x.s.tk # "idle"
    THEN x
    ELSE ParseHandled(w, DispatchHandled(w, x, outcome), outcome)

\* One read of the serial line in command mode and the dispatch of its lines,
\* the handlers ending with the given outcome.
ReadHandled(w, chunk, outcome) ==
    /\ AtLoopTop(w)
    /\ SerUsable(w)
    /\ ~(session[w].mode = "COMBRIDGE" /\ session[w].bridge_session # "None")
    /\ ~(session[w].mode = "BBS" /\ session[w].tcp_sock)
    /\ Commit(w, ParseHandled(w, [World(w) EXCEPT !.s.queue = chunk,
                                                  !.s.atm = EndsWithATM(chunk),
                                                  !.s.ath = FALSE],
                              outcome))
    /\ UNCHANGED <<ACTIVE_PORTS, present, firstOpen, reopened>>

\* The lines still buffered when the bridge module returns are dispatched.
ResumeHandled(w, outcome) ==
    /\ pc[w] = "session"
    /\ session[w].queue # <<>>
    /\ session[w].tk = "idle"
    /\ Commit(w, ParseHandled(w, World(w), outcome))
    /\ UNCHANGED <<ACTIVE_PORTS, present, firstOpen, reopened>>

\* The lines of a terminal that walks through the menus: the menu choices, and
\* the empty line that accepts the default of a bridge prompt.
MenuLines == {"2", "3", "4", "5", "6", "7", "8", ""}

HandlerInput(w) ==
    \/ \E chunk \in UNION {[1..n -> MenuLines] : n \in 1..MaxChunk},
          outcome \in HandlerOutcomes : ReadHandled(w, chunk, outcome)
    \/ \E outcome \in HandlerOutcomes : ResumeHandled(w, outcome)

HandlerNext ==
    \/ \E w \in ByteWorkers : OpenPort(w) \/ Register(w)
    \/ \E w \in ByteWorkers : BridgeTryOpen(w)
    \/ \E w \in ByteWorkers : HandlerInput(w)

\* One session loop with a terminal that enters the modules, whose handlers
\* can raise at every line.
HandlerSpec == ByteInit /\ [][HandlerNext]_vars

(* ---------------- rsh_notes: the notes menu ---------------- *)

\* Note files that NOTES_DIR holds when the notes session is created (line 553).
NoteFiles == 1

\* The modes for which bridge_loop has an "if mode ==" branch (lines 481-997).
DispatchedModes ==
    {"MENU", "BBS", "FILES", "TEXT", "URL", "COMBRIDGE_PROMPT", "COMBRIDGE", "NOTES",
     "WARGAMES", "AI"}

\* The action rsh_notes.handle_input returns for a line when the session lists
\* n notes (rsh_notes.py 68-118): an empty line redraws the menu, Q asks for
\* the main menu, C for a new note, D<k> for the deletion of note k, a number
\* for the text of that note; anything else is answered by the module itself.
NotesAction(l, n) ==
    LET txt == StripUpper(l) IN
    IF txt = "" THEN "None"
    ELSE IF txt = "Q" THEN "MENU"
    ELSE IF txt = "C" THEN "CREATE"
    ELSE IF txt = "D1" THEN IF 1 <= n THEN "DELETE" ELSE "None"
    ELSE IF IntOf(txt) \in 1..n THEN "SHOW_NOTE"
    ELSE "None"

\* The dispatch of the first buffered line when the notes module is the real
\* one (lines 861-940): the action CREATE sets mode = "CREATE_NOTE" (line 915),
\* DELETE sets mode = "CONFIRM_DELETE" (line 923), MENU goes back to the main
\* menu, and the note text is paged with the mode unchanged. The other modules
\* end with the given outcome.
DispatchWithNotes(w, x0, outcome) ==
    LET x == [x0 EXCEPT !.s.raised = "none", !.s.carrier = "none"]
        s == x.s
        rest == Tail(s.queue)
        action == NotesAction(Head(s.queue), NoteFiles) IN
    IF StripUpper(Head(s.queue)) = "ATM" \/ s.mode # "NOTES" \/ outcome = "raise"
    THEN DispatchHandled(w, x0, outcome)
    ELSE IF ~Usable(w, x)
    THEN Escape(x, "exc_serial")
    ELSE IF action = "CREATE"
    THEN [x EXCEPT !.s = [s EXCEPT !.mode = "CREATE_NOTE", !.queue = rest]]
    ELSE IF action = "DELETE"
    THEN [x EXCEPT !.s = [s EXCEPT !.mode = "CONFIRM_DELETE", !.queue = rest]]
    ELSE IF action = "MENU"
    THEN [x EXCEPT !.s = [s EXCEPT !.mode = "MENU", !.queue = rest]]
    ELSE [x EXCEPT !.s = [s EXCEPT !.queue = rest]]

\* The while loop at line 433 with the notes module in place.
RECURSIVE ParseWithNotes(_, _, _)
ParseWithNotes(w, x, outcome) ==
    IF x.pc # "session" \/ x.s.queue = <<>> \/ x.s.tk # "idle"
    THEN x
    ELSE ParseWithNotes(w, DispatchWithNotes(w, x, outcome), outcome)

\* One read of the serial line in command mode and the dispatch of its lines.
ReadWithNotes(w, chunk, outcome) ==
    /\ AtLoopTop(w)
    /\ SerUsable(w)
    /\ ~(session[w].mode = "COMBRIDGE" /\ session[w].bridge_session # "None")
    /\ ~(session[w].mode = "BBS" /\ session[w].tcp_sock)
    /\ Commit(w, ParseWithNotes(w, [World(w) EXCEPT !.s.queue = chunk,
                                                    !.s.atm = EndsWithATM(chunk),
                                                    !.s.ath = FALSE],
                                outcome))
    /\ UNCHANGED <<ACTIVE_PORTS, present, firstOpen, reopened>>

\* The lines still buffered when the bridge module returns are dispatched.
ResumeWithNotes(w, outcome) ==
    /\ pc[w] = "session"
    /\ session[w].queue # <<>>
    /\ session[w].tk = "idle"
    /\ Commit(w, ParseWithNotes(w, World(w), outcome))
    /\ UNCHANGED <<ACTIVE_PORTS, present, firstOpen, reopened>>

\* The lines of a terminal that also uses the notes menu.
NotesLines == MenuLines \cup {"Q", "C", "D1", "1", "ATM"}

NotesInput(w) ==
    \/ \E chunk \in UNION {[1..n -> NotesLines] : n \in 1..MaxChunk},
          outcome \in HandlerOutcomes : ReadWithNotes(w, chunk, outcome)
    \/ \E outcome \in HandlerOutcomes : ResumeWithNotes(w, outcome)

NotesNext ==
    \/ \E w \in ByteWorkers : OpenPort(w) \/ Register(w)
    \/ \E w \in ByteWorkers : BridgeTryOpen(w)
    \/ \E w \in ByteWorkers : NotesInput(w)

\* One session loop with a terminal that enters the modules and works in the
\* notes menu.
NotesSpec == ByteInit /\ [][NotesNext]_vars

(* ---------------- properties of the port registry ---------------- *)

\* The device of port p is absent, or a handle other than its worker's has it.
DeviceLost(w) ==
    \/ ~present[PortOf[w]]
    \/ holder[PortOf[w]] \notin {NoH, SerH(w)}

\* Worker w runs the session loop on its registered port.
ServesAgain(w) == pc[w] = "session" /\ ACTIVE_PORTS[PortOf[w]] = "cur"

\* Some session is opening, or holds, a bridge on port p.
BridgeOn(p) ==
    \E v \in Workers :
        /\ session[v].port_num = p
        /\ session[v].tk # "idle" \/ session[v].bridge_serial

\* C1: no port is at the same time a key of ACTIVE_PORTS and a member of
\* SURRENDERED_PORTS.
NoOwnedAndSurrendered ==
    \A p \in Ports : ~(ACTIVE_PORTS[p] # "none" /\ p \in SURRENDERED_PORTS)

\* C2: a worker that waits for its surrendered port leaves the wait once no
\* bridge is left on that port.
WaiterResumesAfterBridge ==
    \A w \in Workers :
        (pc[w] = "wait_poll" /\ ~BridgeOn(PortOf[w])) ~> (pc[w] # "wait_poll")

\* C3: when the bridge runtime of a session that goes on ends, the bridged port
\* is not in SURRENDERED_PORTS afterwards.
TeardownRestores ==
    [][\A w \in Workers :
          (/\ session[w].bridge_session = "runtime"
           /\ session'[w].bridge_session = "None"
           /\ pc[w] = "session" /\ pc'[w] = "session")
          => session[w].port_num \notin SURRENDERED_PORTS']_vars

\* C4: when every open attempt of the bridge module has failed and the prompts
\* start again, the requested port is not in SURRENDERED_PORTS.
FailedOpenRestores ==
    [][\A w \in Workers :
          (/\ session[w].tk = "open"
           /\ session'[w].tk = "idle"
           /\ session'[w].bridge_session = "prompt"
           /\ pc'[w] = "session")
          => session[w].port_num \notin SURRENDERED_PORTS']_vars

\* C5: a worker in the polling loop whose port has left SURRENDERED_PORTS
\* eventually serves the port again, registered in ACTIVE_PORTS, unless the
\* device is gone or taken by another handle.
RestoredWorkerReopens ==
    \A w \in Workers :
        (pc[w] = "wait_poll" /\ PortOf[w] \notin SURRENDERED_PORTS)
            ~> (ServesAgain(w) \/ DeviceLost(w))

\* C5 witness: a worker has left the polling loop after its port was restored,
\* and the device is free.
RestoredWorkerLeftLoop ==
    \E w \in Workers :
        /\ pc[w] = "sleep1"
        /\ PortOf[w] \notin SURRENDERED_PORTS
        /\ present[PortOf[w]] /\ holder[PortOf[w]] = NoH

\* C6: a worker never calls serial.Serial on its port while the port is in
\* SURRENDERED_PORTS.
NoOpenWhileSurrendered ==
    [][\A w \in Workers :
          (pc[w] = "open" /\ pc'[w] # "open") => PortOf[w] \notin SURRENDERED_PORTS]_vars

\* C7: when a worker is about to open its port, the port is no key of
\* ACTIVE_PORTS.
UnregisteredBeforeOpen ==
    \A w \in Workers : pc[w] = "open" => ACTIVE_PORTS[PortOf[w]] = "none"

\* C8: a worker whose first open found no device has made exactly one open
\* attempt and has stopped.
AbsentAtFirstOpenStops ==
    \A w \in Workers : firstOpen[w] = "absent" => pc[w] = "stopped" /\ ~reopened[w]

\* C8 witness: a worker stopped at its first open although the device has
\* appeared since.
StoppedWhileDevicePresent ==
    \E w \in Workers :
        firstOpen[w] = "absent" /\ pc[w] = "stopped" /\ present[PortOf[w]]

\* C9: a worker stops only when its first open attempt found no device.
StopsOnlyAtFirstOpen ==
    \A w \in Workers : pc[w] = "stopped" => firstOpen[w] = "absent"

\* C10: after a read outside connected passthrough whose last line is ATM, a
\* session that goes on is in MENU with no remote connection and no bridge
\* session.
ATMReturnsToMenu ==
    \A w \in Workers :
        (AtLoopTop(w) /\ session[w].atm)
            => /\ session[w].mode = "MENU"
               /\ ~session[w].tcp_sock
               /\ session[w].bridge_session = "None"

\* C11: after a read made with a live bridge runtime whose last line is ATH,
\* the session is in MENU, the bridge session is gone and the bridged port is
\* closed.
ATHClosesBridge ==
    \A w \in Workers :
        (AtLoopTop(w) /\ session[w].ath)
            => /\ session[w].mode = "MENU"
               /\ session[w].bridge_session = "None"
               /\ ~session[w].bridge_serial

\* A step of w's session loop that dispatches buffered lines to the end: the
\* lines of a read in command mode, or those left when the bridge module
\* returned.
LinesDispatched(w) ==
    /\ pc[w] = "session"
    /\ session[w].tk = "idle"
    /\ SerUsable(w)
    /\ \/ session[w].queue # <<>>
       \/ /\ ~(session[w].mode = "COMBRIDGE" /\ session[w].bridge_session # "None")
          /\ ~(session[w].mode = "BBS" /\ session[w].tcp_sock)
    /\ session'[w] # session[w]
    /\ session'[w].queue = <<>> /\ session'[w].tk = "idle"

\* C12: the session loop returns only on an ATM line dispatched while the
\* worker's own port is in SURRENDERED_PORTS, and then the handle is closed; a
\* session that goes on after a read ending with ATM had its port outside
\* SURRENDERED_PORTS and is in MENU.
SurrenderedATMEndsSession ==
    [][\A w \in Workers :
          /\ (pc[w] = "session" /\ pc'[w] = "unregister")
                => /\ PortOf[w] \in SURRENDERED_PORTS
                   /\ ~serOpen'[w]
                   /\ holder'[PortOf[w]] # SerH(w)
          /\ (LinesDispatched(w) /\ session'[w].atm /\ pc'[w] = "session")
                => /\ PortOf[w] \notin SURRENDERED_PORTS
                   /\ session'[w].mode = "MENU"]_vars

\* C12 witness: a session loop has returned on ATM with its port surrendered.
ReturnedOnSurrenderedATM ==
    \E w \in Workers :
        pc[w] = "unregister" /\ PortOf[w] \in SURRENDERED_PORTS /\ ~serOpen[w]

\* C20: when a session whose terminal line works loses its remote connection
\* (the remote closes, a send or a receive fails), the connection is dropped
\* and the session loop keeps running; it leaves the loop only by the return
\* of the ATM line.
ConnectionLossKeepsSession ==
    [][\A w \in Workers :
          (/\ pc[w] = "session" /\ SerUsable(w)
           /\ session[w].tcp_sock /\ ~session'[w].tcp_sock)
          => pc'[w] \in {"session", "unregister"}]_vars

\* C19: after a dial that failed (connect_bbs reported NO CARRIER) the session
\* loop goes on in the dial directory with no remote connection.
FailedDialStaysInDirectory ==
    \A w \in Workers :
        session[w].carrier = "NO CARRIER"
            => /\ pc[w] = "session"
               /\ session[w].mode = "BBS"
               /\ ~session[w].tcp_sock

\* C19 witness: a dial has failed and every line of the read is dispatched.
DialFailed ==
    \E w \in Workers : AtLoopTop(w) /\ session[w].carrier = "NO CARRIER"

(* ---------------- properties of the session loop, byte by byte ---------------- *)

\* A step of w's session loop that reads bytes in command mode.
CommandRead(w) ==
    /\ AtLoopTop(w)
    /\ session[w].phase = "serial"
    /\ ~(session[w].mode = "BBS" /\ session[w].tcp_sock)
    /\ session'[w] # session[w]
    /\ pc'[w] = "session"
    /\ session'[w].data # <<>>

\* The runs of bytes that end with a terminator, in order; a terminator that
\* follows another one ends no further run.
RECURSIVE Runs(_)
Runs(buf) ==
    IF \A i \in 1..Len(buf) : buf[i] \notin Terminators
    THEN <<>>
    ELSE LET i == CHOOSE i \in 1..Len(buf) :
                      buf[i] \in Terminators
                      /\ \A j \in 1..(i - 1) : buf[j] \notin Terminators IN
         <<SubSeq(buf, 1, i - 1)>> \o Runs(LStrip(SubSeq(buf, i + 1, Len(buf))))

\* C14: the lines a read in command mode dispatches are, terminators at their
\* ends aside, the runs of bytes that end with a terminator in the bytes kept
\* from earlier reads followed by the bytes read, in order.
DispatchedLinesAreRuns ==
    [][\A w \in Workers :
          CommandRead(w)
          => [i \in 1..Len(session'[w].lines) |-> RStrip(LStrip(session'[w].lines[i]))]
                = Runs(session[w].input_buffer \o session'[w].data)]_vars

\* A step of w's session loop that reads bytes and leaves the loop running.
ByteRead(w) ==
    /\ AtLoopTop(w)
    /\ session[w].phase = "serial"
    /\ session'[w] # session[w]
    /\ pc'[w] = "session"
    /\ session'[w].data # <<>>

\* C15: an iteration that has read bytes from the terminal and has a remote
\* connection polls the socket before the next read.
PollFollowsRead ==
    [][\A w \in Workers :
          (ByteRead(w) /\ session'[w].tcp_sock) => session'[w].phase = "poll"]_vars

\* C16: the bytes of a read made while a remote connection is open are passed
\* to tcp_sock.sendall as they were read, unless the send fails.
ForwardedWhileConnected ==
    [][\A w \in Workers :
          (ByteRead(w) /\ session[w].tcp_sock /\ ~session'[w].lost)
          => session'[w].sent = session'[w].data]_vars

\* Some terminator of the stream ends a run of bytes that reads ATH.
EndsATHLine(stream) ==
    \E i, j \in 1..Len(stream) :
        /\ i < j
        /\ stream[j] \in Terminators
        /\ i = 1 \/ stream[i - 1] \in Terminators
        /\ \A k \in i..(j - 1) : stream[k] \notin Terminators
        /\ LineStr(SubSeq(stream, i, j - 1)) = "ATH"

EchoExceptPassthrough ==
    [][\A w \in Workers :
          ByteRead(w)
          => session'[w].echo =
                IF session[w].mode = "BBS" /\ session[w].tcp_sock
                THEN <<>>
                ELSE session'[w].data]_vars

\* C18 witness: a read made outside the dial directory with the connection
\* open was echoed.
EchoedOutsideDirectoryWhileConnected ==
    \E w \in Workers :
        /\ pc[w] = "session"
        /\ session[w].mode = "MENU" /\ session[w].tcp_sock
        /\ session[w].data # <<>> /\ session[w].echo = session[w].data
        /\ session[w].lines = <<>>

(* ---------------- properties of the live bridge ---------------- *)

\* C21: the bytes a read hands to the bridged port while a bridge runtime is
\* live are the bytes read, in order and unchanged.
RawBytesUnmodified ==
    [][\A w \in Workers :
          (/\ ByteRead(w)
           /\ session[w].mode = "COMBRIDGE" /\ session[w].bridge_session # "None"
           /\ ~session'[w].lost)
          => session'[w].sent = session'[w].data]_vars

(* ---------------- properties of xmodem_send ---------------- *)

\* Every write of the list is a message for the user: no frame and no EOT.
OnlyText(writes) == \A i \in 1..Len(writes) : writes[i] = <<TextByte>>

\* The step reads the byte b from the serial input of the sender of w.
SenderReads(w, b) ==
    /\ session[w].xm.toSnd # <<>>
    /\ Head(session[w].xm.toSnd) = b
    /\ session'[w].xm.toSnd = Tail(session[w].xm.toSnd)

\* The k-th chunk of 128 bytes of the file, the last one filled up with 0x1A.
ChunkOf(file, k) ==
    [i \in 1..BlockLen |->
        IF (k - 1) * BlockLen + i <= Len(file)
        THEN file[(k - 1) * BlockLen + i]
        ELSE PAD]

\* ceil(n / 128)
Blocks(n) == (n + BlockLen - 1) \div BlockLen

\* C23: the frame xmodem_send waits on is the k-th frame when it has read k
\* chunks: SOH, k mod 256, its complement, the k-th chunk of the file (padded
\* with 0x1A if it is the short last one) and the sum of these bytes mod 256;
\* it has written one data frame per chunk read and one per NAK, and when no
\* frame was NAKed it reaches EOT with ceil(n/128) data frames written.
FramesAsSpecified ==
    \A w \in Workers :
        LET x == session[w].xm
            k == Blocks(x.pos)
            data == ChunkOf(x.file, k) IN
        /\ x.snd = "ack"
             => /\ x.pkt = <<SOH, k % 256, 255 - (k % 256)>> \o data
                              \o <<Sum(data) % 256>>
                /\ x.tx \in {<<>>, <<x.pkt>>}
                /\ x.nframes = k + x.naks
        /\ (x.snd \in {"eot", "done", "failed"} /\ x.naks = 0)
             => x.nframes = Blocks(Len(x.file))

\* C23 witness: a file of two chunks, the second a short one, was sent to the
\* end without a NAK.
ShortLastChunkSent ==
    \E w \in Workers :
        LET x == session[w].xm IN
        /\ x.snd = "done" /\ x.naks = 0
        /\ x.nframes = 2 /\ Len(x.file) % BlockLen # 0

\* C25: no data frame of xmodem_send carries the block number 0.
DataBlockNeverZero ==
    \A w \in Workers :
        session[w].xm.snd = "ack" => session[w].xm.pkt[2] # 0

\* C26: while xmodem_send waits for the reply to a data frame, a NAK makes it
\* write the same frame again and changes neither the block number nor the
\* place in the file; a CAN or the deadline ends the transfer with a message
\* and no frame or EOT; a new chunk is read only on an ACK (or on the
\* receiver's first NAK or ACK); once aborted the sender does nothing more.
ReplyToDataFrame ==
    [][\A w \in Workers :
          LET x == session[w].xm
              y == session'[w].xm IN
          /\ (x.snd = "ack" /\ SenderReads(w, NAK))
               => /\ y.tx = <<x.pkt>>
                  /\ y.pkt = x.pkt /\ y.sblock_num = x.sblock_num
                  /\ y.pos = x.pos /\ y.snd = "ack"
          /\ (x.snd = "ack" /\ SenderReads(w, CAN))
               => y.snd = "cancelled" /\ OnlyText(y.tx)
          /\ (x.snd = "ack" /\ y.snd = "timeout") => OnlyText(y.tx)
          /\ (x.snd = "ack" /\ y.pos # x.pos) => SenderReads(w, ACK)
          /\ x.snd \in {"cancelled", "timeout"} => y = x]_vars

\* C26 witness: a data frame was NAKed and written again.
FrameResent ==
    \E w \in Workers :
        LET x == session[w].xm IN
        x.snd = "ack" /\ x.naks > 0 /\ x.tx = <<x.pkt>>

\* C27: before xmodem_send has read a NAK or an ACK it writes messages only;
\* it writes its first frame (or EOT) in the step that reads one of the two,
\* and when the start deadline passes it returns with no frame written.
NothingSentBeforeFirstNak ==
    [][\A w \in Workers :
          LET x == session[w].xm
              y == session'[w].xm IN
          /\ (x.snd \in {"off", "start"} /\ ~OnlyText(y.tx))
               => x.snd = "start" /\ (SenderReads(w, NAK) \/ SenderReads(w, ACK))
          /\ y.snd = "noreceiver" => OnlyText(y.tx) /\ y.nframes = 0]_vars

\* C27 witness: the start deadline has passed without a NAK or an ACK.
NoReceiverDetected ==
    \E w \in Workers : session[w].xm.snd = "noreceiver"

\* C28: the ACK of the last chunk makes xmodem_send write EOT; while it waits
\* for the reply a NAK makes it write EOT again, an ACK ends the transfer with
\* success, the deadline ends it with a failure message and nothing else, and
\* after either end the sender does nothing more.
EOTUntilAcked ==
    [][\A w \in Workers :
          LET x == session[w].xm
              y == session'[w].xm IN
          /\ (x.snd = "ack" /\ SenderReads(w, ACK) /\ x.pos = Len(x.file))
               => y.snd = "eot" /\ y.tx = <<<<EOT>>>>
          /\ (x.snd = "eot" /\ SenderReads(w, NAK))
               => y.snd = "eot" /\ y.tx = <<<<EOT>>>>
          /\ (x.snd = "eot" /\ SenderReads(w, ACK))
               => y.snd = "done" /\ OnlyText(y.tx)
          /\ (x.snd = "eot" /\ y.snd \notin {"eot", "done"})
               => y.snd = "failed" /\ OnlyText(y.tx) /\ y.toSnd = x.toSnd
          /\ x.snd \in {"done", "failed"} => y = x]_vars

\* C28 witness: the receiver never acknowledged the EOT of a file of at least
\* one chunk.
EOTNotAcked ==
    \E w \in Workers :
        session[w].xm.snd = "failed" /\ session[w].xm.nframes > 0

(* ---------------- properties of xmodem_receive ---------------- *)

\* The step reads SOH and the packet pkt from the serial input of the
\* receiver of w.
ReceiverReadsFrame(w, pkt) ==
    LET x == session[w].xm
        after == Tail(x.toRcv)
        n == IF Len(after) < BlockLen + 3 THEN Len(after) ELSE BlockLen + 3 IN
    /\ x.rcv = "recv" /\ x.toRcv # <<>> /\ Head(x.toRcv) = SOH
    /\ session'[w].xm.toRcv # x.toRcv
    /\ session'[w].xm.rxc = SOH
    /\ pkt = SubSeq(after, 1, n)

\* The packet is a complete frame of the block with the right complement and
\* checksum.
ValidFrame(block_num, pkt) ==
    /\ Len(pkt) = BlockLen + 3
    /\ pkt[1] = block_num
    /\ pkt[1] + pkt[2] = 255
    /\ Sum(SubSeq(pkt, 3, BlockLen + 2)) % 256 = pkt[BlockLen + 3]

\* C29: xmodem_receive answers a frame of the expected block with a right
\* complement and checksum with ACK, appends its data bytes once and
\* advances the expected block by one mod 256; it answers every other frame
\* with NAK and keeps the data and the expected block as they are.
FramesAcceptedInOrder ==
    [][\A w \in Workers :
          LET x == session[w].xm
              y == session'[w].xm IN
          ReceiverReadsFrame(w, y.rxpkt)
          => IF ValidFrame(x.rblock_num, y.rxpkt)
             THEN /\ y.rtx = <<<<ACK>>>>
                  /\ y.received = x.received \o SubSeq(y.rxpkt, 3, BlockLen + 2)
                  /\ y.rblock_num = (x.rblock_num + 1) % 256
             ELSE /\ y.rtx = <<<<NAK>>>>
                  /\ y.received = x.received
                  /\ y.rblock_num = x.rblock_num]_vars

\* C29 witness: a second copy of the block accepted last arrived and was
\* answered with NAK.
RepeatedBlockRefused ==
    \E w \in Workers :
        LET x == session[w].xm IN
        /\ x.rcv = "recv" /\ x.received # <<>>
        /\ x.rxc = SOH /\ x.rtx = <<<<NAK>>>>
        /\ ValidFrame((x.rblock_num + 255) % 256, x.rxpkt)

ReceiverStep(w) ==
    /\ session[w].xm.rcv = "recv"
    /\ Len(session'[w].xm.toRcv) < Len(session[w].xm.toRcv)

\* C31: whenever xmodem_receive looks for a control byte, the byte it reads
\* is the first one of what the sender put on the line, and after SOH it
\* takes all the 131 bytes of the frame that follow, however the bytes
\* arrived.
FrameReadWhole ==
    [][\A w \in Workers :
          LET x == session[w].xm
              y == session'[w].xm IN
          ReceiverStep(w)
          => /\ x.toRcv \o x.wire = x.item
             /\ y.rxc = SOH => Len(y.rxpkt) = BlockLen + 3]_vars

(* ---------------- properties of a transfer between the two ---------------- *)

\* The k-th block of 1024 bytes of a file, padded.
YChunkOf(file, k) ==
    LET from == (k - 1) * YBlockLen
        to == IF from + YBlockLen < Len(file) THEN from + YBlockLen ELSE Len(file) IN
    YPad(SubSeq(file, from + 1, to))

\* The number of data blocks of a file.
YBlocks(file) == (Len(file) + YBlockLen - 1) \div YBlockLen

\* C33: ymodem_send keeps the order of the protocol. Block 0 (SOH, 0, 255, a
\* header of full length, checksum) is written only on reading NAK or 'C'
\* while waiting for the receiver; a data block is written only once block 0
\* is ACKed, is STX, number, complement, the next full-length padded chunk
\* and checksum on ACK, and is the last frame unchanged on NAK; CAN ends the
\* call without a frame; EOT is written only when block 0 and every data
\* block have been ACKed.
YmodemOrder ==
    [][\A w \in ByteWorkers :
          LET x == session[w].xm
              y == session'[w].xm
              b == Head(x.toSnd) IN
          (YSending(x) /\ x.toSnd # <<>> /\ y.toSnd = Tail(x.toSnd))
          => /\ \A i \in 1..Len(y.tx) :
                   LET f == y.tx[i] IN
                   /\ f[1] = SOH
                      => /\ x.snd = "ystart" /\ b \in {NAK, LetterC}
                         /\ Len(f) = HeaderLen + 4
                         /\ f[2] = 0 /\ f[3] = 255
                         /\ f[HeaderLen + 4] = Sum(SubSeq(f, 4, HeaderLen + 3)) % 256
                   /\ f[1] = STX
                      => /\ y.acks >= 1
                         /\ b \in {ACK, NAK}
                         /\ b = NAK => f = x.pkt /\ x.snd = "yack"
                         /\ b = ACK => f = YFrame(y.acks, YChunkOf(x.file, y.acks))
                   /\ f = <<EOT>>
                      => b = ACK /\ y.acks = 1 + YBlocks(x.file)
             /\ (x.snd = "yack" /\ b = CAN) => y.snd = "ycancelled" /\ y.tx = <<<<TextByte>>>>
             /\ y.snd = "ydone" => y.acks = 2 + YBlocks(x.file)]_vars

\* A file whose last block is short was sent to the end, one block twice.
YmodemSentPadded ==
    \E w \in ByteWorkers :
        /\ session[w].xm.snd = "ydone"
        /\ Len(session[w].xm.file) = YBlockLen + 1
        /\ session[w].xm.naks >= 1

\* The default of each of the seven fields.
FieldDefault == <<1, 115200, 8, 1, "N", 0, 0>>

\* The values a field can have: a positive port number, a baud rate, 7 or 8
\* data bits, 1 or 2 stop bits, parity odd, even or none, and yes (1) or no
\* (0) for the two kinds of flow control.
ValidValue(stage, val) ==
    CASE stage = 0 -> val > 0
      [] stage = 1 -> val >= 0
      [] stage = 2 -> val \in {7, 8}
      [] stage = 3 -> val \in {1, 2}
      [] stage = 4 -> val \in {"O", "E", "N"}
      [] stage \in {5, 6} -> val \in {0, 1}

\* What a reply says for a field: a number, a letter, or yes or no as 1 or 0.
Said(stage, txt) ==
    CASE stage \in 0..3 -> ParseInt(txt)
      [] stage = 4 -> Upper(txt)[1]
      [] stage \in {5, 6} -> IF Upper(txt) = <<"Y">> THEN 1
                             ELSE IF Upper(txt) = <<"N">> THEN 0 ELSE -1

\* Every field has a value.
Complete(v) == \A k \in 1..7 : ValidValue(k - 1, v[FieldOf[k]])

\* C34: the bridge configuration is a staged state machine over seven fields.
\* A dispatched reply is consumed by the stage the session is at: an empty
\* reply stores the default of that stage's field and a valid reply its
\* value, the other fields stay, and the stage advances by one (after the
\* seventh field the open attempts start); an invalid reply leaves stage and
\* values unchanged. The port is opened only after the seventh field, in at
\* most BridgeOpenAttempts tries; when they all fail the stage is the first
\* again, and the bridge runs only with a handle that was opened.
BridgeStaged ==
    [][\A w \in ByteWorkers :
          LET s == session[w]
              t == session'[w]
              f == s.stage
              txt == Strip(t.reply)
              val == IF txt = <<>> THEN FieldDefault[f + 1] ELSE Said(f, txt) IN
          /\ (s.mode = "COMBRIDGE_PROMPT" /\ s.phase = "serial" /\ t.phase = "poll")
             => IF txt = <<>> \/ ValidValue(f, Said(f, txt))
                THEN /\ t.values = [s.values EXCEPT ![FieldOf[f + 1]] = val]
                     /\ IF f < 6 THEN t.stage = f + 1 /\ t.tk = "idle"
                                 ELSE t.stage = 6 /\ t.tk \in {"add", "open"}
                ELSE t.stage = f /\ t.values = s.values /\ t.tk = "idle"
          /\ s.tk # "idle"
             => /\ f = 6 /\ Complete(s.values)
                /\ s.tkAttempt < BridgeOpenAttempts
                /\ s.port_num = s.values.port_num
          /\ (\E p \in Ports : holder'[p] = BsH(w) /\ holder[p] # BsH(w))
             => s.tk = "open"
          /\ (s.tk = "open" /\ t.tk = "idle" /\ ~t.bridge_serial /\ pc'[w] = "session")
             => /\ t.stage = 0 /\ t.mode = "COMBRIDGE_PROMPT"
                /\ t.bridge_session = "prompt"
                /\ s.tkAttempt = BridgeOpenAttempts - 1
          /\ (t.bridge_session = "runtime" /\ s.bridge_session # "runtime")
             => /\ s.tk = "open" /\ t.bridge_serial
                /\ holder'[s.port_num] = BsH(w)]_vars

\* A bridge runs on COM6 with 7 data bits as typed and the default baud rate.
BridgeOpenedAsTyped ==
    \E w \in ByteWorkers :
        /\ session[w].bridge_session = "runtime"
        /\ session[w].values.port_num = 6
        /\ session[w].values.data_bits = 7
        /\ session[w].values.baud = 115200

\* C32: every transfer call terminates whatever the peer does: an upload that
\* is waiting in xmodem_receive eventually leaves it (saved, cancelled or
\* failed) and control is back in the session loop.
ReceiveReturns ==
    \A w \in ByteWorkers :
        (session[w].xm.rcv = "recv") ~> (session[w].xm.rcv # "recv")

\* C22: the file xmodem_receive writes has the content of the file
\* xmodem_send sent.
RoundTripExact ==
    \A w \in Workers :
        session[w].xm.wrote => session[w].xm.dest = session[w].xm.file

\* C24: on the sender and on the receiver the block number after 255 is 0;
\* the receiver finds the block it expects in every frame, and between two
\* frames it is one block ahead of the sender exactly while its ACK is on the
\* way.
BlockNumbersAgree ==
    [][\A w \in Workers :
          LET x == session[w].xm
              y == session'[w].xm
              acked == \E i \in 1..Len(y.toSnd) : y.toSnd[i] = ACK IN
          /\ (x.sblock_num = 255 /\ y.sblock_num # 255) => y.sblock_num = 0
          /\ (x.rblock_num = 255 /\ y.rblock_num # 255) => y.rblock_num = 0
          /\ y.rxc = SOH => y.rtx = <<<<ACK>>>>
          /\ (y.snd = "ack" /\ y.rcv = "recv")
               => y.rblock_num = IF acked THEN (y.sblock_num + 1) % 256
                                          ELSE y.sblock_num]_vars

\* C24 witness: both sides have counted past 255 and the receiver has taken
\* the frame of block 0.
BothWrapped ==
    \E w \in Workers :
        LET x == session[w].xm IN
        /\ x.snd = "ack" /\ x.sblock_num = 0 /\ x.pkt[2] = 0
        /\ x.rcv = "recv" /\ x.rblock_num = 1 /\ x.rxc = SOH

(* ---------------- properties of the module handlers ---------------- *)

\* C13: when the handler of a module raises, the session loop goes on in MENU;
\* a session in a handler mode whose terminal line works never leaves the
\* loop through an error.
HandlerFailureReturnsToMenu ==
    [][\A w \in Workers :
          /\ (pc'[w] = "session" /\ session'[w].raised # "none")
                => session'[w].mode = "MENU"
          /\ (/\ pc[w] = "session" /\ SerUsable(w)
              /\ session[w].mode \in HandlerModes)
                => pc'[w] \in {"session", "unregister"}]_vars

\* C13 witness: the handler of the bridge runtime has raised and the session
\* is back in the menu.
BridgeRuntimeHandlerRaised ==
    \E w \in Workers :
        AtLoopTop(w) /\ session[w].raised = "COMBRIDGE" /\ session[w].mode = "MENU"

(* ---------------- properties across the modes ---------------- *)

\* C35: a remote connection is open only while the session is in the dial
\* directory: whatever leaves that mode has closed the connection.
ConnectionOnlyInDialMode ==
    \A w \in ByteWorkers :
        (pc[w] = "session" /\ session[w].tcp_sock) => session[w].mode = "BBS"

\* C36: bbs_line_buffer is empty whenever a connection is established, so the
\* bytes typed into an earlier connection never count towards an ATH line
\* of a later one.
HangupBufferEmptyOnConnect ==
    [][\A w \in ByteWorkers :
          (~session[w].tcp_sock /\ session'[w].tcp_sock)
          => session'[w].bbs_line_buffer = <<>>]_vars

\* C37: a bridge request that names the session's own port does not strand
\* the line: once the port is in SURRENDERED_PORTS it leaves the set again
\* and the worker serves the line again.
OwnPortServedAgain ==
    \A w \in ByteWorkers :
        (PortOf[w] \in SURRENDERED_PORTS)
        ~> (/\ PortOf[w] \notin SURRENDERED_PORTS
            /\ pc[w] = "session" /\ SerUsable(w))

\* C38: a worker never calls serial.Serial on its port while the Serial
\* object of its previous open still holds the device.
NoOpenWithOwnHandle ==
    [][\A w \in ByteWorkers :
          (pc[w] = "open" /\ pc'[w] # "open")
          => ~(serOpen[w] /\ holder[PortOf[w]] = SerH(w))]_vars

\* C39: within one visit to the file menu the transfer mode changes only
\* when the user enters X, Y or A, and then to the mode of that key: a send
\* that completes or aborts leaves it alone. An upload runs the receive
\* function of the selected mode, so xmodem_receive runs only in XMODEM mode.
TransferModeKept ==
    [][\A w \in ByteWorkers :
          LET s == session[w]
              t == session'[w] IN
          /\ (s.mode = "FILES" /\ t.mode = "FILES" /\ t.transfer_mode # s.transfer_mode)
             => /\ s.phase = "serial" /\ t.phase = "poll"
                /\ \E key \in ModeKeys :
                       t.reply = <<key>> /\ t.transfer_mode = ModeOf(key)
          /\ (t.xm.rcv = "recv" /\ s.xm.rcv = "off")
             => t.transfer_mode = "XMODEM"]_vars

\* C40: the session is only ever in a mode for which bridge_loop has a dispatch
\* branch, so that no line other than ATM is dropped without a handler seeing it.
EveryModeDispatched ==
    \A w \in ByteWorkers :
        pc[w] = "session" => session[w].mode \in DispatchedModes

====
